---- MODULE Spec2Model ----
(***************************************************************************)
(* Model of the static site generator's build orchestrator                 *)
(* (static_site_gen/generator/core.py) and of the helpers it calls         *)
(* (parser.py, utils.py, renderer.py).                                     *)
(*                                                                         *)
(* Strings the program builds by concatenation are modelled structurally:  *)
(* a slug is a base name plus the sequence of numeric suffixes appended    *)
(* to it, so that 'a-2' is [base |-> "a", sfx |-> <<2>>] whether it was    *)
(* authored in front matter or produced by f"{slug}-{counter}".            *)
(***************************************************************************)
EXTENDS Integers, Sequences, FiniteSets, TLC

VARIABLES
    config,         \* self.config: <<>> (None) or <<the validated SiteConfig>>
    renderer,       \* self.renderer: "None" or "Set"
    pc,             \* statement of build() to run next ("Idle": not in build)
    called,         \* the method of the generator called last
    raised,         \* exception that left that call ("None": none)
    includeDrafts,  \* build()'s include_drafts argument
    contentFiles,   \* content_files: [posts, pages], lists of files
    processed,      \* processed_content: [posts, pages], lists of ParsedContent
    posts,          \* build()'s local: posts after the draft filter
    pages,          \* build()'s local: pages
    site,           \* the output directory: path -> what was written there
    steps,          \* the steps build() has run so far, in order
    log,            \* logger.error calls of the current call, in order
    faults,         \* render/write failures met so far in this build
    args,           \* arguments of the helper function called directly
    ret             \* what that call returned or raised (<<>>: not called)

vars == <<config, renderer, pc, called, raised, includeDrafts, contentFiles,
          processed, posts, pages, site, steps, log, faults, args, ret>>

----------------------------------------------------------------------------
(* Bounds *)

\* longest list handed to paginate_posts directly
MaxPaginated == 7

\* largest posts_per_page handed to paginate_posts directly
MaxPerPage == 3

\* longest URL path handed to get_output_path directly, in characters
MaxPathLen == 4

\* longest posts list handed to process_content directly
MaxPosts == 3
\* longest pages list handed to process_content directly
MaxPages == 2
\* most post files a build discovers
BuildMaxPosts == 2
\* most page files a build discovers
BuildMaxPages == 1
\* most render/write failures injected into one build
MaxFaults == 1
MaxTitleLen == 3
MaxSlugCalls == 3
MaxRuns == 2
MaxDay == 2
MaxTextPieces == 5
DirectMaxPosts == 2

----------------------------------------------------------------------------
(* Slugs *)

Slug(base, sfx) == [base |-> base, sfx |-> sfx]

\* f"{slug}-{counter}"
WithSuffix(slug, counter) == [slug EXCEPT !.sfx = Append(@, counter)]

RECURSIVE Probe(_, _, _)
Probe(slug, existing_slugs, counter) ==
    LET candidate == WithSuffix(slug, counter)
    IN  IF candidate \notin existing_slugs
        THEN candidate
        ELSE Probe(slug, existing_slugs, counter + 1)

\* no resolution: every post keeps the slug it asked for
ResolveSlugCollisionNever(slug, existing_slugs) == slug

\* the naive resolution: always the first candidate
ResolveSlugCollisionNoProbe(slug, existing_slugs) ==
    IF slug \notin existing_slugs THEN slug ELSE WithSuffix(slug, 2)

\* a probe that starts one too far
ResolveSlugCollisionFromThree(slug, existing_slugs) ==
    IF slug \notin existing_slugs THEN slug ELSE Probe(slug, existing_slugs, 3)

ResolveSlugCollision(slug, existing_slugs) ==
    IF slug \notin existing_slugs
    THEN slug
    ELSE Probe(slug, existing_slugs, 2)

----------------------------------------------------------------------------
(* Content metadata *)

\* tag.strip() and tag.lower() on the tag spellings the model uses
Strip(tag) ==
    CASE tag = " x" -> "x"
      [] tag = " "  -> ""
      [] OTHER      -> tag

Lower(tag) ==
    CASE tag = "X" -> "x"
      [] OTHER     -> tag

RECURSIVE NormalizeTags(_)
NormalizeTags(tags) ==
    IF tags = <<>> THEN <<>>
    ELSE LET tag == Head(tags)
             rest == NormalizeTags(Tail(tags))
         IN  IF Strip(tag) # "" THEN <<Strip(Lower(tag))>> \o rest ELSE rest

\* ContentMetadata.__init__ followed by __post_init__
ContentMetadata(title, date, slug, tags, draft, description) ==
    [title |-> title, date |-> date, slug |-> slug,
     tags |-> NormalizeTags(tags), draft |-> draft,
     description |-> description]

\* a replace that rebuilds the metadata from the required fields only
ReplaceSlugDroppingFields(metadata, slug) ==
    ContentMetadata(metadata.title, metadata.date, slug, <<>>, FALSE, "None")

\* dataclasses.replace(parsed.metadata, slug=final_slug)
ReplaceSlug(metadata, slug) ==
    ContentMetadata(metadata.title, metadata.date, slug, metadata.tags,
                    metadata.draft, metadata.description)

----------------------------------------------------------------------------
(* Site configuration *)

\* posts_per_page when config.yaml does not set it
DefaultPostsPerPage == 10

\* A config.yaml as from_yaml sees it.  A required field is described by
\* what the checks of from_yaml look at: "missing" (key absent), "null",
\* "blank" (a string that is empty after strip), "int" (not a string) or
\* "str"; base_url carries the parts urlparse finds.
ConfigFile(exists, empty, site_name, base_url, author, ppp, timezone) ==
    [exists |-> exists, empty |-> empty, site_name |-> site_name,
     base_url |-> base_url, author |-> author, posts_per_page |-> ppp,
     timezone |-> timezone]

Url(kind, scheme, netloc) == [kind |-> kind, scheme |-> scheme, netloc |-> netloc]
GoodUrl == Url("str", "https", "example.com")

\* posts_per_page: "missing", an "int", a "bool" (True is 1) or a "str"
PerPage(kind, value) == [kind |-> kind, value |-> value]

\* timezone: "missing", a "str" or an "int"
Zone(kind, name) == [kind |-> kind, name |-> name]

ValidConfigFile(ppp) ==
    ConfigFile(TRUE, FALSE, "str", GoodUrl, "str", ppp, Zone("str", "UTC"))

ConfigFiles ==
    { ValidConfigFile(PerPage("int", 1)),
      ValidConfigFile(PerPage("missing", 0)),
      \* no config.yaml
      ConfigFile(FALSE, FALSE, "str", GoodUrl, "str", PerPage("missing", 0), Zone("str", "UTC")),
      \* empty file
      ConfigFile(TRUE, TRUE, "str", GoodUrl, "str", PerPage("missing", 0), Zone("str", "UTC")),
      \* author missing
      ConfigFile(TRUE, FALSE, "str", GoodUrl, "missing", PerPage("missing", 0), Zone("str", "UTC")),
      \* site_name null
      ConfigFile(TRUE, FALSE, "null", GoodUrl, "str", PerPage("missing", 0), Zone("str", "UTC")),
      \* base_url: "not-a-url"
      ConfigFile(TRUE, FALSE, "str", Url("str", "", ""), "str",
                 PerPage("missing", 0), Zone("str", "UTC")),
      \* posts_per_page: 0
      ConfigFile(TRUE, FALSE, "str", GoodUrl, "str", PerPage("int", 0), Zone("str", "UTC")),
      \* timezone: Mars/Olympus
      ConfigFile(TRUE, FALSE, "str", GoodUrl, "str", PerPage("missing", 0),
                 Zone("str", "Mars/Olympus")) }

RequiredFields == {"site_name", "base_url", "author"}

FieldKind(file, name) ==
    CASE name = "site_name" -> file.site_name
      [] name = "base_url"  -> file.base_url.kind
      [] name = "author"    -> file.author

\* zones ZoneInfo can load
KnownZones == {"UTC", "Europe/Paris"}

\* the SiteConfig dataclass (the fields build() and from_yaml look at)
SiteConfig(site_name, base_url, author, timezone, posts_per_page) ==
    [site_name |-> site_name, base_url |-> base_url, author |-> author,
     timezone |-> timezone, posts_per_page |-> posts_per_page]

\* from_yaml without the base_url check
FromYamlNoUrlCheck(file) ==
    IF ~file.exists THEN [raised |-> "FileNotFoundError", config |-> <<>>,
                          reported |-> {}]
    ELSE IF file.empty \/ file.author # "str" \/ file.site_name # "str"
            \/ file.posts_per_page = PerPage("int", 0)
            \/ file.timezone.name \notin KnownZones
    THEN [raised |-> "ValueError", config |-> <<>>, reported |-> {}]
    ELSE [raised |-> "None",
          config |-> <<SiteConfig(file.site_name, file.base_url, file.author,
                                  file.timezone.name,
                                  IF file.posts_per_page.kind = "missing"
                                  THEN DefaultPostsPerPage
                                  ELSE file.posts_per_page.value)>>,
          reported |-> {}]

\* the required fields from_yaml reports: the missing ones if any is
\* missing, else the null, blank and non-string ones
Reported(file) ==
    LET missing == {f \in RequiredFields : FieldKind(file, f) = "missing"}
        invalid == {f \in RequiredFields :
                       FieldKind(file, f) \in {"null", "blank", "int"}}
    IN  IF missing # {} THEN missing ELSE invalid

\* the outcome of from_yaml: the exception raised ("None": none), the
\* SiteConfig returned (<<>>: none) and the fields named in the message
Loaded(c) == [raised |-> "None", config |-> <<c>>, reported |-> {}]
Rejected(exc, fields) == [raised |-> exc, config |-> <<>>, reported |-> fields]

\* SiteConfig.from_yaml: the validated config, or the exception it raises
FromYaml(file) ==
    IF ~file.exists THEN Rejected("FileNotFoundError", {})
    ELSE IF file.empty THEN Rejected("ValueError", {})
    ELSE IF \E f \in RequiredFields : FieldKind(file, f) = "missing"
    THEN Rejected("ValueError", Reported(file))
    ELSE IF \E f \in RequiredFields : FieldKind(file, f) \in {"null", "blank", "int"}
    THEN Rejected("ValueError", Reported(file))
    ELSE LET posts_per_page ==
                 IF file.posts_per_page.kind = "missing"
                 THEN PerPage("int", DefaultPostsPerPage)
                 ELSE file.posts_per_page
             timezone ==
                 IF file.timezone.kind = "missing"
                 THEN Zone("str", "UTC")
                 ELSE file.timezone
         IN  IF posts_per_page.kind \notin {"int", "bool"}
                \/ posts_per_page.value <= 0
             THEN Rejected("ValueError", {})
             ELSE IF file.base_url.scheme \notin {"http", "https"}
                     \/ file.base_url.netloc = ""
             THEN Rejected("ValueError", {})
             ELSE IF timezone.kind # "str"
             THEN Rejected("TypeError", {})
             ELSE IF timezone.name \notin KnownZones
             THEN Rejected("ValueError", {})
             ELSE Loaded(SiteConfig(file.site_name, file.base_url,
                                    file.author, timezone.name,
                                    posts_per_page.value))

----------------------------------------------------------------------------
(* Content files and parse_content_file *)

\* A Markdown file as parse_content_file sees it: its front matter, the
\* slug the parser settles on (front-matter slug or generate_slug(title)),
\* and the defect, if any, that makes parsing fail.
ContentFile(defect, title, date, slug, tags, draft, description, body) ==
    [defect |-> defect, title |-> title, date |-> date, slug |-> slug,
     tags |-> tags, draft |-> draft, description |-> description,
     body |-> body]

\* a file that fails to parse; its front matter asks for the slug a
BrokenFile(defect) ==
    ContentFile(defect, "", 0, Slug("a", <<>>), <<>>, FALSE, "None", "")

PostFiles ==
    { ContentFile("none", "A", 2, Slug("a", <<>>), <<"X", " ">>, FALSE, "None", "one"),
      ContentFile("none", "A", 1, Slug("a", <<>>), <<" x", "y">>, TRUE, "about a", "two"),
      ContentFile("none", "A 2", 3, Slug("a", <<2>>), <<"y">>, FALSE, "None", "three"),
      ContentFile("none", "B", 2, Slug("b", <<>>), <<>>, FALSE, "None", "four"),
      BrokenFile("missing_title"),
      BrokenFile("tag_not_string") }

\* a post whose front matter has slug: ".." and tags: [".."]
TraversalPost ==
    ContentFile("none", "C", 3, Slug("..", <<>>), <<"..">>, FALSE, "None", "six")

\* the posts of the content directories build() is run on: two posts of
\* the same natural slug and shared tags (one a draft), a post of no tag,
\* the two defective files, and the post of the dangerous slug and tag
BuildPostFiles ==
    {file \in PostFiles : file.title # "A 2"} \cup {TraversalPost}

PageFiles ==
    { ContentFile("none", "A", 1, Slug("a", <<>>), <<"y">>, TRUE, "me", "five"),
      BrokenFile("bad_yaml") }

\* the exception parse_content_file raises on a defective file
ParseException(defect) ==
    CASE defect = "missing_title"  -> "ParseError"
      [] defect = "bad_yaml"       -> "ParseError"
      [] defect = "unreadable"     -> "OSError"
      [] defect = "tag_not_string" -> "AttributeError"

ParsedContent(metadata, content, raw_content, filepath) ==
    [metadata |-> metadata, content |-> content,
     raw_content |-> raw_content, filepath |-> filepath]

ParseContentFile(file, filepath) ==
    IF file.defect # "none"
    THEN [raised |-> ParseException(file.defect), parsed |-> "None"]
    ELSE [raised |-> "None",
          parsed |-> ParsedContent(
              ContentMetadata(file.title, file.date, file.slug, file.tags,
                              file.draft, file.description),
              <<"html", file.body>>, file.body, filepath)]

\* except (ParseError, OSError, ValueError) in _process_content_files
CaughtWhileProcessing == {"ParseError", "OSError", "ValueError"}

\* _process_content_files adding the slug of a file to the set before
\* the file is parsed
RECURSIVE ProcessFromReserving(_, _, _, _, _)
ProcessFromReserving(files, i, slugs, results, errors) ==
    IF i > Len(files)
    THEN [results |-> results, raised |-> "None", errors |-> errors, slugs |-> slugs]
    ELSE LET out == ParseContentFile(files[i], i)
         IN  IF out.raised = "None"
             THEN LET parsed == out.parsed
                      original_slug == parsed.metadata.slug
                      final_slug == ResolveSlugCollision(original_slug, slugs)
                      kept == IF final_slug # original_slug
                              THEN [parsed EXCEPT
                                      !.metadata = ReplaceSlug(@, final_slug)]
                              ELSE parsed
                  IN  ProcessFromReserving(files, i + 1,
                                           slugs \cup {final_slug},
                                           Append(results, kept), errors)
             ELSE IF out.raised \in CaughtWhileProcessing
             THEN ProcessFromReserving(files, i + 1,
                                       slugs \cup {files[i].slug}, results,
                                       Append(errors, i))
             ELSE [results |-> <<>>, raised |-> out.raised,
                   errors |-> errors, slugs |-> slugs]

\* _process_content_files with one slug set for the whole generator
RECURSIVE ProcessFrom(_, _, _, _, _)
ProcessFrom(files, i, slugs, results, errors) ==
    IF i > Len(files)
    THEN [results |-> results, raised |-> "None", errors |-> errors, slugs |-> slugs]
    ELSE LET out == ParseContentFile(files[i], i)
         IN  IF out.raised = "None"
             THEN LET parsed == out.parsed
                      original_slug == parsed.metadata.slug
                      final_slug == ResolveSlugCollision(original_slug, slugs)
                      kept == IF final_slug # original_slug
                              THEN [parsed EXCEPT
                                      !.metadata = ReplaceSlug(@, final_slug)]
                              ELSE parsed
                  IN  ProcessFrom(files, i + 1, slugs \cup {final_slug},
                                  Append(results, kept), errors)
             ELSE IF out.raised \in CaughtWhileProcessing
             THEN ProcessFrom(files, i + 1, slugs, results, Append(errors, i))
             ELSE [results |-> <<>>, raised |-> out.raised,
                   errors |-> errors, slugs |-> slugs]

\* self._process_content_files(files, label): the list returned, the files
\* logged as errors, or the exception that escapes
ProcessContentFiles(files) == ProcessFrom(files, 1, {}, <<>>, <<>>)

----------------------------------------------------------------------------
(* The generator and its inputs *)

\* an output directory left by an earlier build
OldSite ==
    [path \in {[kind |-> "index", slug |-> [base |-> "", sfx |-> <<>>],
                tag |-> "", n |-> 1]}
        |-> [build |-> "old", posts |-> <<>>, pages |-> <<>>, tags |-> <<>>]]

SeqsUpTo(S, n) == UNION {[1..k -> S] : k \in 0..n}

NoContent == [posts |-> <<>>, pages |-> <<>>]


\* SiteGenerator.__init__
NewGenerator ==
    /\ config = <<>>
    /\ renderer = "None"
    /\ pc = "Idle"
    /\ called = "None"
    /\ raised = "None"
    /\ includeDrafts = FALSE
    /\ processed = NoContent
    /\ posts = <<>>
    /\ pages = <<>>
    /\ site = OldSite
    /\ steps = <<>>
    /\ log = <<>>
    /\ faults = {}

\* process_content with the pages probing the slug set the posts filled
ProcessContentSharedSlugs(content_files) ==
    LET p == ProcessContentFiles(content_files.posts)
        g == ProcessFrom(content_files.pages, 1, p.slugs, <<>>, <<>>)
    IN  IF p.raised # "None"
        THEN [raised |-> p.raised, result |-> NoContent,
              errors |-> [posts |-> p.errors, pages |-> <<>>]]
        ELSE IF g.raised # "None"
        THEN [raised |-> g.raised, result |-> NoContent,
              errors |-> [posts |-> p.errors, pages |-> g.errors]]
        ELSE [raised |-> "None",
              result |-> [posts |-> p.results, pages |-> g.results],
              errors |-> [posts |-> p.errors, pages |-> g.errors]]

\* process_content: posts first, then pages, each with its own slug set
ProcessContent(content_files) ==
    LET p == ProcessContentFiles(content_files.posts)
        g == ProcessContentFiles(content_files.pages)
    IN  IF p.raised # "None"
        THEN [raised |-> p.raised, result |-> NoContent,
              errors |-> [posts |-> p.errors, pages |-> <<>>]]
        ELSE IF g.raised # "None"
        THEN [raised |-> g.raised, result |-> NoContent,
              errors |-> [posts |-> p.errors, pages |-> g.errors]]
        ELSE [raised |-> "None",
              result |-> [posts |-> p.results, pages |-> g.results],
              errors |-> [posts |-> p.errors, pages |-> g.errors]]

\* a logger.error call: which loop made it and the item it names
LogEntry(what, n, tag) == [what |-> what, n |-> n, tag |-> tag]

\* logger.error("Error processing %s %s: %s", label, filepath, e)
ParseErrorsLogged(errors) ==
    [k \in 1..Len(errors.posts) |-> LogEntry("post", errors.posts[k], "")]
    \o [k \in 1..Len(errors.pages) |-> LogEntry("page", errors.pages[k], "")]

----------------------------------------------------------------------------
(* Calls made on a generator directly, as the tests make them *)

\* no helper function is called directly
NoHelperCall ==
    /\ args = <<>>
    /\ ret = <<>>

InitContent ==
    /\ NewGenerator
    /\ NoHelperCall
    /\ contentFiles \in [posts : SeqsUpTo(PostFiles, MaxPosts),
                         pages : SeqsUpTo(PageFiles, MaxPages)]

\* generator.load_config()
LoadConfigCall ==
    \E file \in ConfigFiles :
        LET r == FromYaml(file)
        IN  /\ called' = "load_config"
            /\ raised' = r.raised
            /\ config' = IF r.raised = "None" THEN r.config ELSE config
            /\ log' = <<>>
            /\ UNCHANGED <<args, ret, renderer, pc, includeDrafts, contentFiles,
                           processed, posts, pages, site, steps, faults>>

\* generator.process_content(content_files)
ProcessContentCall ==
    /\ called' = "process_content"
    /\ IF config = <<>>
       THEN /\ raised' = "RuntimeError"
            /\ log' = <<>>
            /\ UNCHANGED processed
       ELSE LET r == ProcessContent(contentFiles)
            IN  /\ raised' = r.raised
                /\ log' = ParseErrorsLogged(r.errors)
                /\ processed' = IF r.raised = "None" THEN r.result ELSE processed
    /\ UNCHANGED <<args, ret, config, renderer, pc, includeDrafts, contentFiles,
                   posts, pages, site, steps, faults>>

NextContent == LoadConfigCall \/ ProcessContentCall

SpecContent == InitContent /\ [][NextContent]_vars

----------------------------------------------------------------------------
(* Helpers of the generate_* steps *)

\* the draft filter of build()
\* the draft filter left out
PublishedPostsKeepAll(all_posts, include_drafts) == all_posts

\* the filter of build(): posts = [p for p in all_posts if not p.metadata.draft]
PublishedPosts(all_posts, include_drafts) ==
    IF include_drafts
    THEN all_posts
    ELSE SelectSeq(all_posts, LAMBDA post : ~post.metadata.draft)

\* post.to_dict(): the metadata fields and the content, flat
ToDict(item) ==
    [title |-> item.metadata.title, date |-> item.metadata.date,
     slug |-> item.metadata.slug, tags |-> item.metadata.tags,
     draft |-> item.metadata.draft,
     description |-> item.metadata.description,
     content |-> item.content]

ToDicts(items) == [k \in 1..Len(items) |-> ToDict(items[k])]

\* sort_posts_by_date leaving the posts in the order given
SortPostsKeepOrder(dicts) == dicts

\* sorted(posts, key=lambda p: p["date"], reverse=True): stable, newest
\* first, equal dates in their original order
RECURSIVE InsertByDate(_, _)
InsertByDate(post, sorted) ==
    IF sorted = <<>> THEN <<post>>
    ELSE IF Head(sorted).date >= post.date
         THEN <<Head(sorted)>> \o InsertByDate(post, Tail(sorted))
         ELSE <<post>> \o sorted

RECURSIVE SortFrom(_, _, _)
SortFrom(dicts, i, sorted) ==
    IF i > Len(dicts) THEN sorted
    ELSE SortFrom(dicts, i + 1, InsertByDate(dicts[i], sorted))

SortPostsByDate(dicts) == SortFrom(dicts, 1, <<>>)

\* a URL path as its segments: "/" is <<>>, "/page/3/" is <<"page", "3">>
PageUrl(n) == <<"page", ToString(n)>>

\* generate_pagination_url(page_number)
GeneratePaginationUrl(page_number) ==
    IF page_number <= 1 THEN <<>> ELSE PageUrl(page_number)

\* paginate_posts with total_pages rounded down
PaginatePostsRoundedDown(dicts, posts_per_page) ==
    [page_num \in 1..(Len(dicts) \div posts_per_page) |->
        [posts |-> SubSeq(dicts, (page_num - 1) * posts_per_page + 1,
                          page_num * posts_per_page),
         page_number |-> page_num,
         total_pages |-> Len(dicts) \div posts_per_page,
         has_previous |-> page_num > 1,
         has_next |-> page_num < Len(dicts) \div posts_per_page,
         previous_url |-> <<>>, next_url |-> <<>>]]

\* paginate_posts with previous_url always of the form /page/<n>/
PaginatePostsNoRootUrl(dicts, posts_per_page) ==
    LET total_pages == (Len(dicts) + posts_per_page - 1) \div posts_per_page
    IN  [page_num \in 1..(IF dicts = <<>> THEN 1 ELSE total_pages) |->
            [posts |-> SubSeq(dicts, (page_num - 1) * posts_per_page + 1,
                              IF page_num * posts_per_page < Len(dicts)
                              THEN page_num * posts_per_page ELSE Len(dicts)),
             page_number |-> page_num,
             total_pages |-> IF dicts = <<>> THEN 1 ELSE total_pages,
             has_previous |-> page_num > 1,
             has_next |-> page_num < total_pages,
             previous_url |-> IF page_num > 1 THEN << PageUrl(page_num - 1) >>
                              ELSE <<>>,
             next_url |-> IF page_num < total_pages
                          THEN << PageUrl(page_num + 1) >> ELSE <<>>]]

\* paginate_posts for posts_per_page > 0; a nullable URL is <<>> (None)
\* or <<url>>
PaginatePosts(dicts, posts_per_page) ==
    IF dicts = <<>>
    THEN << [posts |-> <<>>, page_number |-> 1, total_pages |-> 1,
             has_previous |-> FALSE, has_next |-> FALSE,
             previous_url |-> <<>>, next_url |-> <<>>] >>
    ELSE LET total_posts == Len(dicts)
             total_pages == (total_posts + posts_per_page - 1) \div posts_per_page
         IN  [page_num \in 1..total_pages |->
                LET start_idx == (page_num - 1) * posts_per_page
                    end_idx == start_idx + posts_per_page
                    last == IF end_idx < total_posts THEN end_idx ELSE total_posts
                IN  [posts |-> SubSeq(dicts, start_idx + 1, last),
                     page_number |-> page_num,
                     total_pages |-> total_pages,
                     has_previous |-> page_num > 1,
                     has_next |-> page_num < total_pages,
                     previous_url |->
                         IF page_num > 1
                         THEN IF page_num = 2 THEN << <<>> >>
                              ELSE << PageUrl(page_num - 1) >>
                         ELSE <<>>,
                     next_url |->
                         IF page_num < total_pages
                         THEN << PageUrl(page_num + 1) >>
                         ELSE <<>>]]

\* collect_posts_by_tag: the tags in order of first appearance, each with
\* its posts in list order (a post is appended once per tag entry)
RECURSIVE AddToTag(_, _, _)
AddToTag(groups, tag, post) ==
    IF groups = <<>> THEN << [tag |-> tag, posts |-> <<post>>] >>
    ELSE IF Head(groups).tag = tag
         THEN << [Head(groups) EXCEPT !.posts = Append(@, post)] >> \o Tail(groups)
         ELSE << Head(groups) >> \o AddToTag(Tail(groups), tag, post)

RECURSIVE AddTags(_, _, _, _)
AddTags(groups, post, tags, t) ==
    IF t > Len(tags) THEN groups
    ELSE AddTags(AddToTag(groups, tags[t], post), post, tags, t + 1)

RECURSIVE CollectFrom(_, _, _)
CollectFrom(dicts, i, groups) ==
    IF i > Len(dicts) THEN groups
    ELSE CollectFrom(dicts, i + 1, AddTags(groups, dicts[i], dicts[i].tags, 1))

CollectPostsByTag(dicts) == CollectFrom(dicts, 1, <<>>)

\* string order on the tags the model uses
TagBefore(s, t) == s = "x" /\ t = "y"

\* sorted([(tag, len(tag_posts)) ...]): by tag name
RECURSIVE InsertByTag(_, _)
InsertByTag(entry, sorted) ==
    IF sorted = <<>> THEN <<entry>>
    ELSE IF Head(sorted).tag = entry.tag \/ TagBefore(Head(sorted).tag, entry.tag)
         THEN <<Head(sorted)>> \o InsertByTag(entry, Tail(sorted))
         ELSE <<entry>> \o sorted

RECURSIVE TagsWithCountsFrom(_, _, _)
TagsWithCountsFrom(groups, i, sorted) ==
    IF i > Len(groups) THEN sorted
    ELSE TagsWithCountsFrom(groups, i + 1,
            InsertByTag([tag |-> groups[i].tag, count |-> Len(groups[i].posts)],
                        sorted))

TagsWithCounts(groups) == TagsWithCountsFrom(groups, 1, <<>>)

----------------------------------------------------------------------------
(* The output directory *)

NoSlug == Slug("", <<>>)

\* a file under output_dir: posts/<slug>/index.html, <slug>/index.html,
\* tag/<tag>/index.html, index.html (n = 1), page/<n>/index.html,
\* tag/index.html, feed.xml, sitemap.xml, static/
Path(kind, slug, tag, n) == [kind |-> kind, slug |-> slug, tag |-> tag, n |-> n]
PostPath(slug) == Path("post", slug, "", 0)
PagePath(slug) == Path("page", slug, "", 0)
TagPath(tag) == Path("tag", NoSlug, tag, 0)
IndexPath(n) == Path("index", NoSlug, "", n)
TagIndexPath == Path("tag_index", NoSlug, "", 0)
FeedPath == Path("feed", NoSlug, "", 0)
SitemapPath == Path("sitemap", NoSlug, "", 0)
StaticPath == Path("static", NoSlug, "", 0)

\* what a written file shows: the posts and pages handed to the renderer
\* (by slug), and the tags with their counts
Content(build, post_ids, page_ids, tags) ==
    [build |-> build, posts |-> post_ids, pages |-> page_ids, tags |-> tags]

Ids(dicts) == [k \in 1..Len(dicts) |-> dicts[k].slug]

\* write_file(path, content)
WriteFile(files, path, content) == (path :> content) @@ files

EmptySite == [path \in {} |-> Content("new", <<>>, <<>>, <<>>)]

----------------------------------------------------------------------------
(* get_output_path *)

\* A str is the sequence of its characters.  "%2e" and "%5C" stand for the
\* three characters of a percent escape, "index.html" and the names of
\* directories ("posts", "tag", "out", ...) for runs of plain characters.
PathChars == {"/", ".", "\\", " ", "a", "%2e", "%5C"}

\* urllib.parse.unquote
Unquote(str) ==
    [i \in 1..Len(str) |->
        CASE str[i] = "%2e" -> "."
          [] str[i] = "%5C" -> "\\"
          [] OTHER          -> str[i]]

\* sub in str, for a sub of one or two characters
Contains(str, sub) ==
    \E i \in 1..(Len(str) - Len(sub) + 1) :
        SubSeq(str, i, i + Len(sub) - 1) = sub

\* str.strip("/")
RECURSIVE LStrip(_)
LStrip(str) ==
    IF str # <<>> /\ Head(str) = "/" THEN LStrip(Tail(str)) ELSE str

RECURSIVE RStrip(_)
RStrip(str) ==
    IF str # <<>> /\ str[Len(str)] = "/"
    THEN RStrip(SubSeq(str, 1, Len(str) - 1))
    ELSE str

StripSlashes(str) == RStrip(LStrip(str))

\* str.split("/"): the runs between the slashes, empty runs included
RECURSIVE SplitFrom(_, _, _)
SplitFrom(str, i, parts) ==
    IF i > Len(str) THEN parts
    ELSE IF str[i] = "/"
    THEN SplitFrom(str, i + 1, Append(parts, <<>>))
    ELSE SplitFrom(str, i + 1,
                   [parts EXCEPT ![Len(parts)] = Append(@, str[i])])

Split(str) == SplitFrom(str, 1, << <<>> >>)

\* the parts of str joined to base with their blanks removed
JoinPathTrimmed(base, str) ==
    base \o [i \in 1..Len(Split(str)) |->
                SelectSeq(Split(str)[i], LAMBDA c : c # " ")]

\* pathlib: the parts of base / str, where empty parts and "." parts of
\* str are dropped
JoinPath(base, str) ==
    base \o SelectSeq(Split(str), LAMBDA part : part # <<>> /\ part # <<".">>)

\* the directories of the file system: base_dir is /out; /out/a is a
\* directory (or absent), a symlink to /etc or a symlink to /out2
BaseDir == << <<"out">> >>
Entries == {"dir", "outside", "sibling"}

LinkTarget(entry) ==
    IF entry = "outside" THEN << <<"etc">> >> ELSE << <<"out", "2">> >>

\* Path.resolve(): symlinks followed
Resolve(path, entry) ==
    IF /\ entry # "dir"
       /\ Len(path) > Len(BaseDir)
       /\ SubSeq(path, 1, Len(BaseDir)) = BaseDir
       /\ path[Len(BaseDir) + 1] = <<"a">>
    THEN LinkTarget(entry) \o SubSeq(path, Len(BaseDir) + 2, Len(path))
    ELSE path

\* str(path)
RECURSIVE StrOf(_)
StrOf(path) ==
    IF path = <<>> THEN <<>> ELSE <<"/">> \o Head(path) \o StrOf(Tail(path))

\* str.startswith
StartsWith(str, prefix) ==
    Len(str) >= Len(prefix) /\ SubSeq(str, 1, Len(prefix)) = prefix

IndexHtml == <<"index.html">>

\* what a helper call came to: the exception raised ("None": none) and
\* the value returned
Returned(value) == <<[raised |-> "None", value |-> value]>>
Raised(exc) == <<[raised |-> exc, value |-> <<>>]>>

\* get_output_path(base_dir, url_path), entry being what /out/a is
GetOutputPath(base_dir, url_path, entry) ==
    LET decoded_path == Unquote(url_path)
        relative_path == StripSlashes(url_path)
    IN  IF Contains(url_path, <<".", ".">>) \/ Contains(decoded_path, <<".", ".">>)
        THEN Raised("ValueError")
        ELSE IF Contains(relative_path, <<"\\">>)
        THEN Raised("ValueError")
        ELSE IF relative_path = <<>>
        THEN Returned(Append(base_dir, IndexHtml))
        ELSE LET output_path == Append(JoinPath(base_dir, relative_path), IndexHtml)
                 resolved_base == Resolve(base_dir, entry)
                 resolved_output == Resolve(output_path, entry)
             IN  IF ~StartsWith(StrOf(resolved_output), StrOf(resolved_base))
                 THEN Raised("ValueError")
                 ELSE Returned(output_path)

\* str(slug) and the tag as a str: ".." is two dots, any other name a
\* run of plain characters; a suffix is "-" and the digits
Chars(name) == IF name = ".." THEN <<".", ".">> ELSE <<name>>

RECURSIVE SuffixChars(_)
SuffixChars(sfx) ==
    IF sfx = <<>> THEN <<>>
    ELSE <<"-", ToString(Head(sfx))>> \o SuffixChars(Tail(sfx))

SlugChars(slug) == Chars(slug.base) \o SuffixChars(slug.sfx)

\* urllib.parse.quote(tag, safe=""): letters, digits and _ . - ~ are kept
Quote(str) ==
    [i \in 1..Len(str) |->
        CASE str[i] = "/"  -> "%2F"
          [] str[i] = "\\" -> "%5C"
          [] str[i] = " "  -> "%20"
          [] OTHER         -> str[i]]

\* generate_post_url, generate_page_url, generate_tag_url
GeneratePostUrl(slug) == <<"/", "posts", "/">> \o SlugChars(slug) \o <<"/">>
GeneratePageUrl(slug) == <<"/">> \o SlugChars(slug) \o <<"/">>
GenerateTagUrl(tag) == <<"/", "tag", "/">> \o Quote(Chars(tag)) \o <<"/">>

\* get_output_path(self.output_dir, url_path) raises: the output directory
\* has just been emptied, so nothing in it is a symlink
Refused(url_path) == Head(GetOutputPath(BaseDir, url_path, "dir")).raised # "None"

----------------------------------------------------------------------------
(* clean_output_dir *)

\* the resolved paths clean_output_dir refuses, and the names whose
\* presence in the directory makes it refuse
Denylist == {"/", "/Users", "/home", "/System", "/Applications"}
CriticalFiles == {".bash_profile", ".bashrc", ".zshrc", "Desktop", "Documents"}

\* What output_dir is: the path it resolves to, what is there ("absent",
\* "dir", "file", or "symlink" when output_dir itself is a symlink to a
\* directory), and the names in the directory it resolves to.
Directory(resolved, kind, entries) ==
    [resolved |-> resolved, kind |-> kind, entries |-> entries]

\* clean_output_dir deleting without the look for user files
CleanOutputDirUnchecked(output_dir) ==
    IF output_dir.resolved \in Denylist
    THEN [raised |-> "ValueError", after |-> output_dir]
    ELSE [raised |-> "None", after |-> Directory(output_dir.resolved, "dir", {})]

\* clean_output_dir(output_dir): the exception raised and the directory
\* afterwards.  shutil.rmtree raises OSError on a symlink and on a file.
CleanOutputDirAt(output_dir) ==
    IF output_dir.resolved \in Denylist
    THEN [raised |-> "ValueError", after |-> output_dir]
    ELSE IF output_dir.entries \cap CriticalFiles # {}
    THEN [raised |-> "ValueError", after |-> output_dir]
    ELSE IF output_dir.kind \in {"symlink", "file"}
    THEN [raised |-> "OSError", after |-> output_dir]
    ELSE [raised |-> "None", after |-> Directory(output_dir.resolved, "dir", {})]

\* the output directories build() is run on: one holding the old site,
\* one holding a .bashrc
BuildOutputDirs ==
    { Directory("/srv/site", "dir", {"index.html"}),
      Directory("/srv/site", "dir", {"index.html", ".bashrc"}) }

----------------------------------------------------------------------------
(* Failures of rendering and writing *)

\* what a render_* or write_file call may raise: OSError (a failed write,
\* a missing template), ValueError, or a Jinja2 error that is neither
\* (TemplateSyntaxError, UndefinedError)
RenderWriteExceptions == {"OSError", "ValueError", "TemplateSyntaxError"}

\* except (OSError, ValueError) in the generate_* methods
CaughtWhileGenerating == {"OSError", "ValueError"}

\* the failure met at one item of one step
Fault(step, n, tag, exc) == [step |-> step, n |-> n, tag |-> tag, exc |-> exc]

Key(n, tag) == [n |-> n, tag |-> tag]

\* the failures a step may meet at the items named by keys
FaultChoices(step, keys) ==
    { f \in SUBSET {Fault(step, k.n, k.tag, e) :
                        k \in keys, e \in RenderWriteExceptions} :
        /\ Cardinality(f) + Cardinality(faults) <= MaxFaults
        /\ \A a, b \in f : (a.n = b.n /\ a.tag = b.tag) => a = b }

FaultOn(f, n, tag) ==
    IF \E x \in f : x.n = n /\ x.tag = tag
    THEN (CHOOSE x \in f : x.n = n /\ x.tag = tag).exc
    ELSE "None"

\* the failures of f met at one item
Met(f, n, tag) == {x \in f : x.n = n /\ x.tag = tag}

\* the state a generate_* method works on
Progress(files, errors, exc, met) ==
    [site |-> files, log |-> errors, raised |-> exc, met |-> met]

StartOf(step) == Progress(site, log, "None", {})

----------------------------------------------------------------------------
(* The generate_* methods *)

\* the loop of generate_posts (what = "generate_posts") and of
\* generate_pages (what = "generate_pages")
RECURSIVE GenerateItemsFrom(_, _, _, _, _)
GenerateItemsFrom(items, i, what, f, st) ==
    IF i > Len(items) THEN st
    ELSE LET item == items[i]
             url_path == IF what = "generate_posts"
                         THEN GeneratePostUrl(item.metadata.slug)
                         ELSE GeneratePageUrl(item.metadata.slug)
             exc == IF FaultOn(f, item.filepath, "") # "None"
                    THEN FaultOn(f, item.filepath, "")
                    ELSE IF Refused(url_path) THEN "ValueError" ELSE "None"
             path == IF what = "generate_posts"
                     THEN PostPath(item.metadata.slug)
                     ELSE PagePath(item.metadata.slug)
             content == IF what = "generate_posts"
                        THEN Content("new", Ids(<<ToDict(item)>>), <<>>, <<>>)
                        ELSE Content("new", <<>>, Ids(<<ToDict(item)>>), <<>>)
         IN  IF exc = "None"
             THEN GenerateItemsFrom(items, i + 1, what, f,
                      [st EXCEPT !.site = WriteFile(@, path, content)])
             ELSE IF exc \in CaughtWhileGenerating
             THEN GenerateItemsFrom(items, i + 1, what, f,
                      [st EXCEPT
                         !.log = Append(@, LogEntry(what, item.filepath, "")),
                         !.met = @ \cup Met(f, item.filepath, "")])
             ELSE [st EXCEPT !.raised = exc,
                             !.met = @ \cup Met(f, item.filepath, "")]

\* the loop of generate_index over the pages of paginate_posts
RECURSIVE GenerateIndexFrom(_, _, _, _)
GenerateIndexFrom(page_infos, i, f, st) ==
    IF i > Len(page_infos) THEN st
    ELSE LET page_info == page_infos[i]
             exc == FaultOn(f, page_info.page_number, "")
         IN  IF exc = "None"
             THEN GenerateIndexFrom(page_infos, i + 1, f,
                      [st EXCEPT !.site =
                          WriteFile(@, IndexPath(page_info.page_number),
                                    Content("new", Ids(page_info.posts), <<>>, <<>>))])
             ELSE [st EXCEPT
                     !.raised = exc,
                     !.log = IF exc \in CaughtWhileGenerating
                             THEN Append(@, LogEntry("generate_index", 0, ""))
                             ELSE @,
                     !.met = @ \cup {Fault("generate_index",
                                           page_info.page_number, "", exc)}]

\* the loop of generate_tag_pages over posts_by_tag.items()
RECURSIVE GenerateTagPagesFrom(_, _, _, _)
GenerateTagPagesFrom(groups, i, f, st) ==
    IF i > Len(groups) THEN st
    ELSE LET tag == groups[i].tag
             sorted_posts == SortPostsByDate(groups[i].posts)
             exc == IF FaultOn(f, 0, tag) # "None"
                    THEN FaultOn(f, 0, tag)
                    ELSE IF Refused(GenerateTagUrl(tag)) THEN "ValueError"
                    ELSE "None"
         IN  IF exc = "None"
             THEN GenerateTagPagesFrom(groups, i + 1, f,
                      [st EXCEPT !.site =
                          WriteFile(@, TagPath(tag),
                                    Content("new", Ids(sorted_posts), <<>>, <<>>))])
             ELSE IF exc \in CaughtWhileGenerating
             THEN GenerateTagPagesFrom(groups, i + 1, f,
                      [st EXCEPT
                         !.log = Append(@, LogEntry("generate_tag_pages", 0, tag)),
                         !.met = @ \cup Met(f, 0, tag)])
             ELSE [st EXCEPT !.raised = exc,
                             !.met = @ \cup Met(f, 0, tag)]

\* generate_tag_index, generate_feed and generate_sitemap: one render and
\* one write inside try/except (OSError, ValueError)
GenerateOne(what, path, content, f, st) ==
    LET exc == FaultOn(f, 0, "")
    IN  IF exc = "None"
        THEN [st EXCEPT !.site = WriteFile(@, path, content)]
        ELSE IF exc \in CaughtWhileGenerating
        THEN [st EXCEPT !.log = Append(@, LogEntry(what, 0, "")),
                        !.met = @ \cup {Fault(what, 0, "", exc)}]
        ELSE [st EXCEPT !.raised = exc,
                        !.met = @ \cup {Fault(what, 0, "", exc)}]

PostKeys(items) == {Key(items[k].filepath, "") : k \in 1..Len(items)}
TagKeys(groups) == {Key(0, groups[k].tag) : k \in 1..Len(groups)}
NumberKeys(page_infos) == {Key(k, "") : k \in 1..Len(page_infos)}

\* the tags handed to render_sitemap: names only (count 0)
TagNames(groups) == [k \in 1..Len(groups) |-> [tag |-> groups[k].tag, count |-> 0]]

----------------------------------------------------------------------------
(* build(): one action per step *)

\* build() with the pages generated before the posts
NextStepPagesFirst(step, ps, gs) ==
    CASE step = "load_config"        -> "init_renderer"
      [] step = "init_renderer"      -> "clean_output_dir"
      [] step = "clean_output_dir"   -> "discover_content"
      [] step = "discover_content"   -> "process_content"
      [] step = "process_content"    ->
            IF gs # <<>> THEN "generate_pages"
            ELSE IF ps # <<>> THEN "generate_posts"
            ELSE "generate_sitemap"
      [] step = "generate_pages"     ->
            IF ps # <<>> THEN "generate_posts" ELSE "generate_sitemap"
      [] step = "generate_posts"     -> "generate_index"
      [] step = "generate_index"     -> "generate_tag_pages"
      [] step = "generate_tag_pages" -> "generate_tag_index"
      [] step = "generate_tag_index" -> "generate_feed"
      [] step = "generate_feed"      -> "generate_sitemap"
      [] step = "generate_sitemap"   -> "copy_assets"
      [] step = "copy_assets"        -> "Done"

\* build() that does not return after copy_assets
NextStepHanging(step, ps, gs) ==
    CASE step = "load_config"        -> "init_renderer"
      [] step = "init_renderer"      -> "clean_output_dir"
      [] step = "clean_output_dir"   -> "discover_content"
      [] step = "discover_content"   -> "process_content"
      [] step = "process_content"    ->
            IF ps # <<>> THEN "generate_posts"
            ELSE IF gs # <<>> THEN "generate_pages"
            ELSE "generate_sitemap"
      [] step = "generate_posts"     -> "generate_index"
      [] step = "generate_index"     -> "generate_tag_pages"
      [] step = "generate_tag_pages" -> "generate_tag_index"
      [] step = "generate_tag_index" -> "generate_feed"
      [] step = "generate_feed"      ->
            IF gs # <<>> THEN "generate_pages" ELSE "generate_sitemap"
      [] step = "generate_pages"     -> "generate_sitemap"
      [] step = "generate_sitemap"   -> "copy_assets"
      [] step = "copy_assets"        -> "copy_assets_returned"

\* the step build() runs after `step`, given the posts and pages it holds
NextStep(step, ps, gs) ==
    CASE step = "load_config"        -> "init_renderer"
      [] step = "init_renderer"      -> "clean_output_dir"
      [] step = "clean_output_dir"   -> "discover_content"
      [] step = "discover_content"   -> "process_content"
      [] step = "process_content"    ->
            IF ps # <<>> THEN "generate_posts"
            ELSE IF gs # <<>> THEN "generate_pages"
            ELSE "generate_sitemap"
      [] step = "generate_posts"     -> "generate_index"
      [] step = "generate_index"     -> "generate_tag_pages"
      [] step = "generate_tag_pages" -> "generate_tag_index"
      [] step = "generate_tag_index" -> "generate_feed"
      [] step = "generate_feed"      ->
            IF gs # <<>> THEN "generate_pages" ELSE "generate_sitemap"
      [] step = "generate_pages"     -> "generate_sitemap"
      [] step = "generate_sitemap"   -> "copy_assets"
      [] step = "copy_assets"        -> "Done"

\* the step returned, or raised exc
Leave(step, exc, ps, gs) ==
    /\ steps' = Append(steps, step)
    /\ raised' = exc
    /\ pc' = IF exc = "None" THEN NextStep(step, ps, gs) ELSE "Raised"

\* a generate_* step ends in st
Generated(step, st) ==
    /\ site' = st.site
    /\ log' = st.log
    /\ faults' = faults \cup st.met
    /\ Leave(step, st.raised, posts, pages)
    /\ UNCHANGED <<args, ret, config, renderer, called, includeDrafts, contentFiles,
                   processed, posts, pages>>

InitBuild ==
    /\ NewGenerator
    /\ NoHelperCall
    /\ contentFiles = NoContent

\* generator.build(include_drafts)
BuildCall ==
    /\ pc = "Idle"
    /\ called = "None"
    /\ called' = "build"
    /\ includeDrafts' \in BOOLEAN
    /\ pc' = "load_config"
    /\ UNCHANGED <<args, ret, config, renderer, raised, contentFiles, processed, posts,
                   pages, site, steps, log, faults>>

\* self.load_config()
LoadConfig ==
    /\ pc = "load_config"
    /\ \E file \in ConfigFiles :
          LET r == FromYaml(file)
          IN  /\ config' = IF r.raised = "None" THEN r.config ELSE config
              /\ Leave("load_config", r.raised, posts, pages)
    /\ UNCHANGED <<args, ret, renderer, called, includeDrafts, contentFiles, processed,
                   posts, pages, site, log, faults>>

\* self.renderer = TemplateRenderer(self.template_dir)
InitRenderer ==
    /\ pc = "init_renderer"
    /\ \E template_dir_exists \in BOOLEAN :
          /\ renderer' = IF template_dir_exists THEN "Set" ELSE renderer
          /\ Leave("init_renderer",
                   IF template_dir_exists THEN "None" ELSE "FileNotFoundError",
                   posts, pages)
    /\ UNCHANGED <<args, ret, config, called, includeDrafts, contentFiles, processed,
                   posts, pages, site, log, faults>>

\* clean_output_dir(self.output_dir)
CleanOutputDir ==
    /\ pc = "clean_output_dir"
    /\ \E output_dir \in BuildOutputDirs :
          LET r == CleanOutputDirAt(output_dir)
          IN  /\ site' = IF r.raised = "None" THEN EmptySite ELSE site
              /\ Leave("clean_output_dir", r.raised, posts, pages)
    /\ UNCHANGED <<args, ret, config, renderer, called, includeDrafts, contentFiles,
                   processed, posts, pages, log, faults>>

\* content_files = self.discover_content()
DiscoverContent ==
    /\ pc = "discover_content"
    /\ contentFiles' \in [posts : SeqsUpTo(BuildPostFiles, BuildMaxPosts),
                          pages : SeqsUpTo(PageFiles, BuildMaxPages)]
    /\ Leave("discover_content", "None", posts, pages)
    /\ UNCHANGED <<args, ret, config, renderer, called, includeDrafts, processed, posts,
                   pages, site, log, faults>>

\* processed_content = self.process_content(content_files), and the
\* draft filter that follows it
ProcessContentStep ==
    /\ pc = "process_content"
    /\ LET r == ProcessContent(contentFiles)
           ps == PublishedPosts(r.result.posts, includeDrafts)
           gs == r.result.pages
       IN  /\ processed' = r.result
           /\ posts' = ps
           /\ pages' = gs
           /\ log' = log \o ParseErrorsLogged(r.errors)
           /\ Leave("process_content", r.raised, ps, gs)
    /\ UNCHANGED <<args, ret, config, renderer, called, includeDrafts, contentFiles,
                   site, faults>>

\* self.generate_posts(posts)
GeneratePosts ==
    /\ pc = "generate_posts"
    /\ \E f \in FaultChoices("generate_posts", PostKeys(posts)) :
          Generated("generate_posts",
                    GenerateItemsFrom(posts, 1, "generate_posts", f,
                                      StartOf("generate_posts")))

\* self.generate_index(posts)
GenerateIndex ==
    /\ pc = "generate_index"
    /\ LET page_infos == PaginatePosts(SortPostsByDate(ToDicts(posts)),
                                       Head(config).posts_per_page)
       IN  \E f \in FaultChoices("generate_index", NumberKeys(page_infos)) :
              Generated("generate_index",
                        GenerateIndexFrom(page_infos, 1, f,
                                          StartOf("generate_index")))

\* self.generate_tag_pages(posts)
GenerateTagPages ==
    /\ pc = "generate_tag_pages"
    /\ LET posts_by_tag == CollectPostsByTag(ToDicts(posts))
       IN  \E f \in FaultChoices("generate_tag_pages", TagKeys(posts_by_tag)) :
              Generated("generate_tag_pages",
                        GenerateTagPagesFrom(posts_by_tag, 1, f,
                                             StartOf("generate_tag_pages")))

\* self.generate_tag_index(posts)
GenerateTagIndex ==
    /\ pc = "generate_tag_index"
    /\ LET posts_by_tag == CollectPostsByTag(ToDicts(posts))
       IN  \E f \in FaultChoices("generate_tag_index", {Key(0, "")}) :
              Generated("generate_tag_index",
                        GenerateOne("generate_tag_index", TagIndexPath,
                                    Content("new", <<>>, <<>>,
                                            TagsWithCounts(posts_by_tag)),
                                    f, StartOf("generate_tag_index")))

\* self.generate_feed(posts)
GenerateFeed ==
    /\ pc = "generate_feed"
    /\ \E f \in FaultChoices("generate_feed", {Key(0, "")}) :
          Generated("generate_feed",
                    GenerateOne("generate_feed", FeedPath,
                                Content("new",
                                        Ids(SortPostsByDate(ToDicts(posts))),
                                        <<>>, <<>>),
                                f, StartOf("generate_feed")))

\* self.generate_pages(pages)
GeneratePages ==
    /\ pc = "generate_pages"
    /\ \E f \in FaultChoices("generate_pages", PostKeys(pages)) :
          Generated("generate_pages",
                    GenerateItemsFrom(pages, 1, "generate_pages", f,
                                      StartOf("generate_pages")))

\* self.generate_sitemap(posts, pages)
GenerateSitemap ==
    /\ pc = "generate_sitemap"
    /\ LET posts_dict == SortPostsByDate(ToDicts(posts))
           pages_dict == ToDicts(pages)
           all_tags == TagNames(CollectPostsByTag(posts_dict))
       IN  \E f \in FaultChoices("generate_sitemap", {Key(0, "")}) :
              Generated("generate_sitemap",
                        GenerateOne("generate_sitemap", SitemapPath,
                                    Content("new", Ids(posts_dict),
                                            Ids(pages_dict), all_tags),
                                    f, StartOf("generate_sitemap")))

\* self.copy_assets()
CopyAssets ==
    /\ pc = "copy_assets"
    /\ \E static_dir_exists \in BOOLEAN :
          site' = IF static_dir_exists
                  THEN WriteFile(site, StaticPath, Content("new", <<>>, <<>>, <<>>))
                  ELSE site
    /\ Leave("copy_assets", "None", posts, pages)
    /\ UNCHANGED <<args, ret, config, renderer, called, includeDrafts, contentFiles,
                   processed, posts, pages, log, faults>>

Next ==
    \/ BuildCall
    \/ LoadConfig
    \/ InitRenderer
    \/ CleanOutputDir
    \/ DiscoverContent
    \/ ProcessContentStep
    \/ GeneratePosts
    \/ GenerateIndex
    \/ GenerateTagPages
    \/ GenerateTagIndex
    \/ GenerateFeed
    \/ GeneratePages
    \/ GenerateSitemap
    \/ CopyAssets

Spec == InitBuild /\ [][Next]_vars

----------------------------------------------------------------------------
(* get_output_path called directly *)

InitPaths ==
    /\ NewGenerator
    /\ contentFiles = NoContent
    /\ args \in [url_path : SeqsUpTo(PathChars, MaxPathLen), entry : Entries]
    /\ ret = <<>>

\* get_output_path(base_dir, url_path)
GetOutputPathCall ==
    /\ ret = <<>>
    /\ ret' = GetOutputPath(BaseDir, args.url_path, args.entry)
    /\ UNCHANGED <<config, renderer, pc, called, raised, includeDrafts,
                   contentFiles, processed, posts, pages, site, steps, log,
                   faults, args>>

NextPaths == GetOutputPathCall

SpecPaths == InitPaths /\ [][NextPaths]_vars

----------------------------------------------------------------------------
(* clean_output_dir called directly *)

\* the names a directory may hold
EntryNames == {".bashrc", "Documents", "index.html"}

\* the directories clean_output_dir is called on; / is always a directory
OutputDirs ==
    { d \in [resolved : Denylist \cup {"/srv/site", "/home/me"},
             kind : {"absent", "dir", "file", "symlink"},
             entries : SUBSET EntryNames] :
        /\ d.kind \in {"absent", "file"} => d.entries = {}
        /\ d.resolved = "/" => d.kind = "dir" }

InitClean ==
    /\ NewGenerator
    /\ contentFiles = NoContent
    /\ args \in OutputDirs
    /\ ret = <<>>

\* clean_output_dir(output_dir)
CleanOutputDirCall ==
    /\ ret = <<>>
    /\ ret' = <<CleanOutputDirAt(args)>>
    /\ UNCHANGED <<config, renderer, pc, called, raised, includeDrafts,
                   contentFiles, processed, posts, pages, site, steps, log,
                   faults, args>>

NextClean == CleanOutputDirCall

SpecClean == InitClean /\ [][NextClean]_vars

----------------------------------------------------------------------------
(* load_config called directly *)

\* what a required field of config.yaml may be
FieldKinds == {"missing", "null", "blank", "int", "str"}

\* base_url: absent, null, blank, a number, or a string that urlparse
\* splits into a scheme and a host
Urls ==
    { Url("missing", "", ""), Url("null", "", ""), Url("blank", "", ""),
      Url("int", "", ""), GoodUrl, Url("str", "", ""),
      Url("str", "ftp", "example.com"), Url("str", "http", "") }

PerPages ==
    { PerPage("missing", 0), PerPage("int", 1), PerPage("int", 0),
      PerPage("int", -1), PerPage("bool", 1), PerPage("str", 0) }

Zones ==
    { Zone("missing", ""), Zone("str", "UTC"), Zone("str", "Europe/Paris"),
      Zone("str", "Mars/Olympus"), Zone("int", "") }

\* the config.yaml files load_config is called on
LoadableFiles ==
    {ConfigFile(FALSE, FALSE, "str", GoodUrl, "str", PerPage("missing", 0),
                Zone("missing", "")),
     ConfigFile(TRUE, TRUE, "str", GoodUrl, "str", PerPage("missing", 0),
                Zone("missing", ""))}
    \cup [exists : {TRUE}, empty : {FALSE}, site_name : FieldKinds,
          base_url : Urls, author : FieldKinds, posts_per_page : PerPages,
          timezone : Zones]

InitConfig ==
    /\ NewGenerator
    /\ contentFiles = NoContent
    /\ args \in LoadableFiles
    /\ ret = <<>>

\* generator.load_config() with config.yaml being args
LoadConfigOf ==
    /\ ret = <<>>
    /\ LET r == FromYaml(args)
       IN  /\ ret' = <<r>>
           /\ called' = "load_config"
           /\ raised' = r.raised
           /\ config' = IF r.raised = "None" THEN r.config ELSE config
    /\ UNCHANGED <<renderer, pc, includeDrafts, contentFiles, processed,
                   posts, pages, site, steps, log, faults, args>>

NextConfig == LoadConfigOf

SpecConfig == InitConfig /\ [][NextConfig]_vars

----------------------------------------------------------------------------
(* paginate_posts called directly *)

\* the post dictionaries handed to paginate_posts; it never looks inside
PaginatedDicts == {[title |-> "A"], [title |-> "B"]}

InitPaginate ==
    /\ NewGenerator
    /\ contentFiles = NoContent
    /\ args \in [posts : SeqsUpTo(PaginatedDicts, MaxPaginated),
                 posts_per_page : (-1)..MaxPerPage]
    /\ ret = <<>>

\* paginate_posts(posts, posts_per_page)
PaginatePostsCall ==
    /\ ret = <<>>
    /\ ret' = IF args.posts_per_page <= 0
              THEN Raised("ValueError")
              ELSE Returned(PaginatePosts(args.posts, args.posts_per_page))
    /\ UNCHANGED <<config, renderer, pc, called, raised, includeDrafts,
                   contentFiles, processed, posts, pages, site, steps, log,
                   faults, args>>

NextPaginate == PaginatePostsCall

SpecPaginate == InitPaginate /\ [][NextPaginate]_vars

----------------------------------------------------------------------------
(* Claims about process_content (checked under SpecContent) *)

Classes == {"posts", "pages"}

\* process_content has returned its result for contentFiles
ContentReturned == called = "process_content" /\ raised = "None"

\* the file a returned item was parsed from, and the slug the parser gave it
SourceOf(class, item) == contentFiles[class][item.filepath]
NaturalSlug(class, item) == SourceOf(class, item).slug

\* the slugs of the items returned before position k
SlugsBefore(items, k) == {items[j].metadata.slug : j \in 1..(k - 1)}

\* positions of the files of a list that parse, in list order
RECURSIVE ParsingFrom(_, _)
ParsingFrom(files, i) ==
    IF i > Len(files) THEN <<>>
    ELSE IF files[i].defect = "none"
         THEN <<i>> \o ParsingFrom(files, i + 1)
         ELSE ParsingFrom(files, i + 1)

FilepathsOf(items) == [k \in 1..Len(items) |-> items[k].filepath]

\* C1: the slugs of the posts returned by process_content are pairwise
\* distinct, and so are the slugs of the pages returned.
C1_SlugsDistinct ==
    \A class \in Classes :
        \A i, j \in 1..Len(processed[class]) :
            i # j => processed[class][i].metadata.slug
                        # processed[class][j].metadata.slug

\* three posts with natural slugs a, a, a-2 (in some order) came back
C1_Witness ==
    /\ ContentReturned
    /\ Len(processed.posts) = 3
    /\ \E i, j, k \in 1..3 :
          /\ i # j
          /\ NaturalSlug("posts", processed.posts[i]) = Slug("a", <<>>)
          /\ NaturalSlug("posts", processed.posts[j]) = Slug("a", <<>>)
          /\ NaturalSlug("posts", processed.posts[k]) = Slug("a", <<2>>)

\* C2: in list order, the first item with a slug keeps it; a later item
\* whose slug is already used gets slug-N for the least N >= 2 such that
\* slug-N is not yet used.
C2_CollisionPolicy ==
    ContentReturned =>
        \A class \in Classes :
            \A k \in 1..Len(processed[class]) :
                LET item == processed[class][k]
                    natural == NaturalSlug(class, item)
                    used == SlugsBefore(processed[class], k)
                    final == item.metadata.slug
                IN  IF natural \notin used
                    THEN final = natural
                    ELSE \E N \in 2..(k + 1) :
                            /\ final = WithSuffix(natural, N)
                            /\ final \notin used
                            /\ \A m \in 2..(N - 1) :
                                  WithSuffix(natural, m) \in used

\* a post was renamed to a-3 because a and a-2 were taken
C2_Witness ==
    /\ ContentReturned
    /\ \E k \in 1..Len(processed.posts) :
          /\ NaturalSlug("posts", processed.posts[k]) = Slug("a", <<>>)
          /\ processed.posts[k].metadata.slug = Slug("a", <<3>>)

\* C3: a returned item differs from what parse_content_file returned for
\* its file in the slug at most: title, date, tags, draft, description,
\* content, raw_content and filepath are the parser's.
C3_OnlySlugChanges ==
    ContentReturned =>
        \A class \in Classes :
            \A k \in 1..Len(processed[class]) :
                LET item == processed[class][k]
                    parsed == ParseContentFile(SourceOf(class, item),
                                               item.filepath).parsed
                IN  /\ item.metadata.title = parsed.metadata.title
                    /\ item.metadata.date = parsed.metadata.date
                    /\ item.metadata.tags = parsed.metadata.tags
                    /\ item.metadata.draft = parsed.metadata.draft
                    /\ item.metadata.description = parsed.metadata.description
                    /\ item.content = parsed.content
                    /\ item.raw_content = parsed.raw_content
                    /\ item.filepath = parsed.filepath
                    /\ item.metadata.slug = parsed.metadata.slug => item = parsed

\* a renamed post that is a draft with tags and a description
C3_Witness ==
    /\ ContentReturned
    /\ \E k \in 1..Len(processed.posts) :
          LET item == processed.posts[k]
          IN  /\ item.metadata.slug # NaturalSlug("posts", item)
              /\ item.metadata.draft
              /\ item.metadata.tags = <<"x", "y">>
              /\ item.metadata.description = "about a"

\* C4: posts and pages have separate slug namespaces: an item is renamed
\* only when an item of its own class, returned before it, holds its slug.
C4_SeparateNamespaces ==
    ContentReturned =>
        \A class \in Classes :
            \A k \in 1..Len(processed[class]) :
                LET item == processed[class][k]
                IN  item.metadata.slug # NaturalSlug(class, item)
                        => NaturalSlug(class, item)
                               \in SlugsBefore(processed[class], k)

\* the first page keeps the slug a although a post holds it
C4_Witness ==
    /\ ContentReturned
    /\ Len(processed.pages) >= 1
    /\ processed.pages[1].metadata.slug = Slug("a", <<>>)
    /\ \E i \in 1..Len(processed.posts) :
          processed.posts[i].metadata.slug = Slug("a", <<>>)

\* C5: with the config loaded, process_content never raises, and returns
\* exactly the files that parse, in input order.
C5_BadFilesSkipped ==
    (called = "process_content" /\ config # <<>>) =>
        /\ raised = "None"
        /\ \A class \in Classes :
              FilepathsOf(processed[class]) = ParsingFrom(contentFiles[class], 1)

\* the files of a list that parse
Parsing(files) == SelectSeq(files, LAMBDA file : file.defect = "none")

SlugsOf(items) == [k \in 1..Len(items) |-> items[k].metadata.slug]

\* C28: a file that is skipped because it failed to parse reserves no
\* slug: a later file with the slug the failed file asked for keeps it
\* unless a returned item holds it, and the slugs assigned are those
\* assigned when the failed files are left out of the input.
C28_FailedFileReservesNoSlug ==
    ContentReturned =>
        \A class \in Classes :
            /\ SlugsOf(processed[class]) =
                  SlugsOf(ProcessContentFiles(
                              Parsing(contentFiles[class])).results)
            /\ \A k \in 1..Len(processed[class]) :
                  LET item == processed[class][k]
                  IN  NaturalSlug(class, item)
                          \notin SlugsBefore(processed[class], k)
                        => item.metadata.slug = NaturalSlug(class, item)

\* a post asking for slug a came back as a although a file asking for a,
\* listed before it, had failed to parse
C28_Witness ==
    /\ ContentReturned
    /\ \E k \in 1..Len(processed.posts) :
          LET item == processed.posts[k]
          IN  /\ item.metadata.slug = Slug("a", <<>>)
              /\ \E i \in 1..(item.filepath - 1) :
                    /\ contentFiles.posts[i].defect = "missing_title"
                    /\ contentFiles.posts[i].slug = Slug("a", <<>>)

----------------------------------------------------------------------------
(* Claims about build() (checked under Spec) *)

StepsRun == {steps[k] : k \in 1..Len(steps)}

\* the step ran and returned without raising
Completed(step) ==
    \E k \in 1..Len(steps) :
        steps[k] = step /\ ~(pc = "Raised" /\ k = Len(steps))

\* the step ran and build() left it with an exception
RaisedIn(step) == pc = "Raised" /\ steps # <<>> /\ steps[Len(steps)] = step

AllPosts == processed.posts
DraftIds ==
    {AllPosts[k].metadata.slug :
        k \in {j \in 1..Len(AllPosts) : AllPosts[j].metadata.draft}}

TagsOf(post) == {post.metadata.tags[k] : k \in 1..Len(post.metadata.tags)}

\* the posts carrying tag, drafts counted or not
Carrying(tag, with_drafts) ==
    {AllPosts[k].metadata.slug :
        k \in {j \in 1..Len(AllPosts) :
                  /\ tag \in TagsOf(AllPosts[j])
                  /\ (with_drafts \/ ~AllPosts[j].metadata.draft)}}

Shown(path) == {site[path].posts[k] : k \in 1..Len(site[path].posts)}
TagsShown(path) == {site[path].tags[k] : k \in 1..Len(site[path].tags)}

\* C6: with include_drafts=False no draft post appears in any generated
\* artifact (post pages, index pages, tag pages, tag index, feed,
\* sitemap): no file shows a draft, no tag page or tag entry exists for a
\* tag only drafts carry, and the tag index counts published posts only;
\* with include_drafts=True every draft appears in each of those
\* artifacts that was generated.
C6_DraftsOnlyWhenIncluded ==
    called = "build" =>
      /\ ~includeDrafts =>
           \A path \in DOMAIN site :
              /\ Shown(path) \cap DraftIds = {}
              /\ path.kind = "tag" => Carrying(path.tag, FALSE) # {}
              /\ \A t \in TagsShown(path) :
                    /\ Carrying(t.tag, FALSE) # {}
                    /\ path.kind = "tag_index" =>
                          t.count = Cardinality(Carrying(t.tag, FALSE))
      /\ includeDrafts =>
           \A k \in 1..Len(AllPosts) :
              LET post == AllPosts[k]
                  unfailed(step, tag) ==
                      ~\E f \in faults : /\ f.step = step
                                         /\ f.n = (IF tag = "" THEN post.filepath ELSE 0)
                                         /\ f.tag = tag
              IN  post.metadata.draft =>
                    /\ (Completed("generate_posts") /\ unfailed("generate_posts", ""))
                          => /\ PostPath(post.metadata.slug) \in DOMAIN site
                             /\ Shown(PostPath(post.metadata.slug)) = {post.metadata.slug}
                    /\ Completed("generate_index")
                          => \E path \in DOMAIN site :
                                path.kind = "index" /\ post.metadata.slug \in Shown(path)
                    /\ \A tag \in TagsOf(post) :
                          /\ (Completed("generate_tag_pages")
                              /\ unfailed("generate_tag_pages", tag))
                                => /\ TagPath(tag) \in DOMAIN site
                                   /\ post.metadata.slug \in Shown(TagPath(tag))
                          /\ TagIndexPath \in DOMAIN site
                                => [tag |-> tag,
                                    count |-> Cardinality(Carrying(tag, TRUE))]
                                       \in TagsShown(TagIndexPath)
                          /\ SitemapPath \in DOMAIN site
                                => \E t \in TagsShown(SitemapPath) : t.tag = tag
                    /\ FeedPath \in DOMAIN site
                          => post.metadata.slug \in Shown(FeedPath)
                    /\ SitemapPath \in DOMAIN site
                          => post.metadata.slug \in Shown(SitemapPath)

\* a build without drafts finished, a draft was parsed, and a published
\* post shares a tag with it
C6_Witness ==
    /\ called = "build" /\ pc = "Done" /\ ~includeDrafts
    /\ DraftIds # {}
    /\ FeedPath \in DOMAIN site /\ TagIndexPath \in DOMAIN site
    /\ \E tag \in {"x", "y"} :
          /\ Carrying(tag, FALSE) # {}
          /\ Carrying(tag, TRUE) # Carrying(tag, FALSE)

\* the place of a step in the order load configuration, discover content,
\* parse content, generate posts, generate index, generate tag pages,
\* generate tag index, generate feed, generate pages, generate sitemap,
\* copy assets, Done (0: not one of them)
Position(step) ==
    CASE step = "load_config"        -> 1
      [] step = "discover_content"   -> 2
      [] step = "process_content"    -> 3
      [] step = "generate_posts"     -> 4
      [] step = "generate_index"     -> 5
      [] step = "generate_tag_pages" -> 6
      [] step = "generate_tag_index" -> 7
      [] step = "generate_feed"      -> 8
      [] step = "generate_pages"     -> 9
      [] step = "generate_sitemap"   -> 10
      [] step = "copy_assets"        -> 11
      [] step = "Done"               -> 12
      [] OTHER                       -> 0

InOrder(step) == Position(step) > 0

\* C7: the steps of build() occur in the order load configuration,
\* discover content, parse content, generate posts, generate index,
\* generate tag pages, generate tag index, generate feed, generate pages,
\* generate sitemap, copy assets, Done:
\* each step that runs comes later in that order than the step that ran
\* before it (so the steps that ran are in order and none ran twice), the
\* step about to run comes later than the last that finished, and Done is
\* reached only right after the assets were copied.
C7_LinearOrder ==
    called = "build" =>
      /\ LET ran == SelectSeq(steps, InOrder)
         IN  /\ \A i \in 1..(Len(ran) - 1) :
                    Position(ran[i]) < Position(ran[i + 1])
             /\ (InOrder(pc) /\ ran # <<>>) =>
                    Position(ran[Len(ran)]) < Position(pc)
      /\ pc = "Done" => /\ steps # <<>>
                        /\ steps[Len(steps)] = "copy_assets"
                        /\ raised = "None"

\* a build with posts and pages ran every step and is Done
C7_Witness ==
    /\ called = "build" /\ pc = "Done"
    /\ {Position(steps[k]) : k \in 1..Len(steps)} = 0..11

\* what from_yaml promises of a SiteConfig it returns
ValidConfig(c) ==
    /\ c.site_name = "str" /\ c.author = "str"
    /\ c.base_url.kind = "str"
    /\ c.base_url.scheme \in {"http", "https"} /\ c.base_url.netloc # ""
    /\ c.timezone \in KnownZones
    /\ c.posts_per_page > 0

Written(kind) == {path \in DOMAIN site : path.kind = kind}

FailedAt(step, n, tag) ==
    \E f \in faults : f.step = step /\ f.n = n /\ f.tag = tag

\* C9: in generate_posts, generate_pages and generate_tag_pages a failure
\* of rendering or writing one item is logged and that item skipped: the
\* operation returns normally, and the files written are exactly those of
\* the items whose render and write succeeded (an item whose output path
\* is refused is not written either).
C9_ItemFailureSkipsItem ==
    called = "build" =>
      /\ "generate_posts" \in StepsRun =>
            /\ ~RaisedIn("generate_posts")
            /\ Written("post") =
                  {PostPath(posts[k].metadata.slug) :
                      k \in {j \in 1..Len(posts) :
                                /\ ~FailedAt("generate_posts", posts[j].filepath, "")
                                /\ ~Refused(GeneratePostUrl(posts[j].metadata.slug))}}
      /\ "generate_pages" \in StepsRun =>
            /\ ~RaisedIn("generate_pages")
            /\ Written("page") =
                  {PagePath(pages[k].metadata.slug) :
                      k \in {j \in 1..Len(pages) :
                                /\ ~FailedAt("generate_pages", pages[j].filepath, "")
                                /\ ~Refused(GeneratePageUrl(pages[j].metadata.slug))}}
      /\ "generate_tag_pages" \in StepsRun =>
            /\ ~RaisedIn("generate_tag_pages")
            /\ Written("tag") =
                  {TagPath(tag) :
                      tag \in {t \in UNION {TagsOf(posts[k]) : k \in 1..Len(posts)} :
                                  /\ ~FailedAt("generate_tag_pages", 0, t)
                                  /\ ~Refused(GenerateTagUrl(t))}}
      /\ \A f \in faults :
            f.step \in {"generate_posts", "generate_pages", "generate_tag_pages"}
               => \E k \in 1..Len(log) : log[k] = LogEntry(f.step, f.n, f.tag)

\* C10: a failure while rendering or writing an index page makes
\* generate_index raise, build() abort and none of the later steps run;
\* a render failure in generate_feed, generate_tag_index or
\* generate_sitemap is logged and does not stop the build.
C10_IndexFatalOthersLogged ==
    called = "build" =>
      \A f \in faults :
         /\ f.step = "generate_index" =>
               /\ RaisedIn("generate_index")
               /\ pc # "Done"
         /\ f.step \in {"generate_feed", "generate_tag_index", "generate_sitemap"} =>
               /\ ~RaisedIn(f.step)
               /\ \E k \in 1..Len(log) : log[k] = LogEntry(f.step, 0, "")

----------------------------------------------------------------------------
(* Claims about paginate_posts (checked under SpecPaginate) *)

\* ceil(n / k) for n >= 0 and k > 0, by its definition
Ceil(n, k) == CHOOSE m \in 0..n : m * k >= n /\ (m - 1) * k < n

RECURSIVE Concat(_)
Concat(seqs) == IF seqs = <<>> THEN <<>> ELSE Head(seqs) \o Concat(Tail(seqs))

PagesReturned == Head(ret).value

\* C12: paginate_posts(posts, k) with k > 0 and n = len(posts) > 0
\* returns ceil(n/k) pages numbered 1..ceil(n/k), each but the last of k
\* posts, the last of 1..k posts, each with total_pages = ceil(n/k), and
\* the pages' posts concatenated in page order are the input list; for
\* an empty list it returns one page of no posts, numbered 1 of 1; for
\* k <= 0 it raises ValueError, also when the list is empty.
C12_PagesPartitionPosts ==
    ret # <<>> =>
      LET n == Len(args.posts)
          k == args.posts_per_page
      IN  /\ k <= 0 => Head(ret).raised = "ValueError"
          /\ k > 0 => Head(ret).raised = "None"
          /\ (k > 0 /\ n = 0) =>
                /\ Len(PagesReturned) = 1
                /\ PagesReturned[1].posts = <<>>
                /\ PagesReturned[1].page_number = 1
                /\ PagesReturned[1].total_pages = 1
          /\ (k > 0 /\ n > 0) =>
                /\ Len(PagesReturned) = Ceil(n, k)
                /\ \A i \in 1..Len(PagesReturned) :
                      /\ PagesReturned[i].page_number = i
                      /\ PagesReturned[i].total_pages = Ceil(n, k)
                      /\ i < Len(PagesReturned) =>
                            Len(PagesReturned[i].posts) = k
                      /\ i = Len(PagesReturned) =>
                            Len(PagesReturned[i].posts) \in 1..k
                /\ Concat([i \in 1..Len(PagesReturned) |->
                              PagesReturned[i].posts]) = args.posts

\* 7 posts with posts_per_page = 3 came back as 3 pages, the last of 1
C12_Witness ==
    /\ ret # <<>>
    /\ Len(args.posts) = 7 /\ args.posts_per_page = 3
    /\ Head(ret).raised = "None"
    /\ Len(PagesReturned) = 3
    /\ Len(PagesReturned[3].posts) = 1

\* C13: in every page record of paginate_posts, has_previous is
\* page_number > 1 and has_next is page_number < total_pages;
\* previous_url is null exactly when has_previous is false and next_url
\* exactly when has_next is false; next_url is /page/<page_number+1>/ and
\* previous_url is / for page 2 and /page/<page_number-1>/ for later
\* pages: each is generate_pagination_url of the neighbouring page.
C13_NeighbourLinks ==
    (ret # <<>> /\ Head(ret).raised = "None") =>
      \A i \in 1..Len(PagesReturned) :
         LET page == PagesReturned[i]
         IN  /\ page.has_previous = (page.page_number > 1)
             /\ page.has_next = (page.page_number < page.total_pages)
             /\ (page.previous_url = <<>>) = ~page.has_previous
             /\ (page.next_url = <<>>) = ~page.has_next
             /\ page.has_next =>
                   /\ page.next_url = << <<"page", ToString(page.page_number + 1)>> >>
                   /\ page.next_url = <<GeneratePaginationUrl(page.page_number + 1)>>
             /\ page.has_previous =>
                   /\ page.previous_url =
                         IF page.page_number = 2 THEN << <<>> >>
                         ELSE << <<"page", ToString(page.page_number - 1)>> >>
                   /\ page.previous_url =
                         <<GeneratePaginationUrl(page.page_number - 1)>>

\* three pages came back: the second links back to / and on to /page/3/
C13_Witness ==
    /\ ret # <<>> /\ Head(ret).raised = "None"
    /\ Len(PagesReturned) = 3
    /\ PagesReturned[2].previous_url = << <<>> >>
    /\ PagesReturned[2].next_url = << <<"page", "3">> >>
    /\ PagesReturned[3].previous_url = << <<"page", "2">> >>
    /\ PagesReturned[3].next_url = <<>>

----------------------------------------------------------------------------
(* Claims about get_output_path (checked under SpecPaths) *)

PathCalled == ret # <<>>
PathReturned == ret # <<>> /\ Head(ret).raised = "None"

\* the segments of the URL path: stripped of slashes, split on "/"
Segments(url_path) == Split(StripSlashes(url_path))

\* C14: get_output_path maps the empty path, "/" and every path of only
\* slashes to base_dir/index.html, and an accepted path /s1/.../sn/ to
\* base_dir/s1/.../sn/index.html, the segments being used as given.
C14_PathOfSegments ==
    PathCalled =>
      LET segments == Segments(args.url_path)
      IN  /\ (\A i \in 1..Len(args.url_path) : args.url_path[i] = "/") =>
                /\ Head(ret).raised = "None"
                /\ Head(ret).value = BaseDir \o <<IndexHtml>>
          /\ (/\ Head(ret).raised = "None"
              /\ \A i \in 1..Len(segments) :
                    segments[i] # <<>> /\ segments[i] # <<".">>) =>
                Head(ret).value = BaseDir \o segments \o <<IndexHtml>>

\* "/a/ a" came back as /out/a/ a/index.html
C14_Witness ==
    /\ PathReturned
    /\ args.url_path = <<"/", "a", "/", " ">>
    /\ Head(ret).value = << <<"out">>, <<"a">>, <<" ">>, IndexHtml >>

\* C15: get_output_path raises ValueError for every URL path whose raw
\* form or whose percent-decoded form contains ".." or a backslash.
C15_TraversalRejected ==
    PathCalled =>
      \A form \in {args.url_path, Unquote(args.url_path)} :
         (Contains(form, <<".", ".">>) \/ Contains(form, <<"\\">>))
            => Head(ret).raised = "ValueError"

\* str.strip()
RECURSIVE Trim(_)
Trim(str) ==
    IF str # <<>> /\ Head(str) = " " THEN Trim(Tail(str))
    ELSE IF str # <<>> /\ str[Len(str)] = " "
    THEN Trim(SubSeq(str, 1, Len(str) - 1))
    ELSE str

\* C16: get_output_path raises ValueError for every URL path that,
\* stripped of leading and trailing slashes and split on "/", has a
\* segment that is empty after trimming, is "." or "..", or differs from
\* its trimmed form (the root path, which has no segment, aside).
C16_SegmentsValidated ==
    (PathCalled /\ StripSlashes(args.url_path) # <<>>) =>
      LET segments == Segments(args.url_path)
      IN  (\E i \in 1..Len(segments) :
              \/ Trim(segments[i]) = <<>>
              \/ segments[i] \in {<<".">>, <<".", ".">>}
              \/ segments[i] # Trim(segments[i]))
            => Head(ret).raised = "ValueError"

\* path lies under base
IsDescendant(path, base) ==
    Len(path) > Len(base) /\ SubSeq(path, 1, Len(base)) = base

\* C17: whenever get_output_path returns a path, that path resolved to
\* canonical form is a descendant of the resolved base_dir.
C17_Contained ==
    PathReturned =>
      IsDescendant(Resolve(Head(ret).value, args.entry),
                   Resolve(BaseDir, args.entry))

----------------------------------------------------------------------------
(* Claims about clean_output_dir (checked under SpecClean) *)

\* C18: clean_output_dir refuses with ValueError, deleting and creating
\* nothing, when the target resolves to a denylisted root or contains a
\* user-data marker; otherwise it returns for a directory that exists
\* and for one that does not, and whenever it returns the output
\* directory exists and is empty.
C18_CleanRefusesOrEmpties ==
    ret # <<>> =>
      LET unsafe == \/ args.resolved \in
                          {"/", "/Users", "/home", "/System", "/Applications"}
                    \/ args.entries \cap
                          {".bash_profile", ".bashrc", ".zshrc", "Desktop",
                           "Documents"} # {}
      IN  /\ unsafe => /\ Head(ret).raised = "ValueError"
                       /\ Head(ret).after = args
          /\ (~unsafe /\ args.kind \in {"absent", "dir"}) =>
                Head(ret).raised = "None"
          /\ Head(ret).raised = "None" =>
                /\ ~unsafe
                /\ Head(ret).after.kind = "dir"
                /\ Head(ret).after.entries = {}
                /\ Head(ret).after.resolved = args.resolved
          /\ Head(ret).raised # "None" => Head(ret).after = args

\* a home-like directory holding .bashrc was refused and left as it was
C18_Witness ==
    /\ ret # <<>>
    /\ args = Directory("/home/me", "dir", {".bashrc", "index.html"})
    /\ Head(ret).raised = "ValueError"
    /\ Head(ret).after = args

----------------------------------------------------------------------------
(* Claims about security errors in build() (checked under Spec) *)

\* the step has come to an item whose destination get_output_path refuses
DetectedIn(step) ==
    /\ step \in StepsRun
    /\ faults = {}
    /\ CASE step = "generate_posts" ->
              \E k \in 1..Len(posts) :
                 Refused(GeneratePostUrl(posts[k].metadata.slug))
         [] step = "generate_pages" ->
              \E k \in 1..Len(pages) :
                 Refused(GeneratePageUrl(pages[k].metadata.slug))
         [] step = "generate_tag_pages" ->
              \E k \in 1..Len(posts) :
                 \E tag \in TagsOf(posts[k]) : Refused(GenerateTagUrl(tag))

\* C11: security errors are fatal: when get_output_path detects path
\* traversal for a post, page or tag destination during a build, or
\* clean_output_dir refuses its target, build() is left with a
\* ValueError; the error is not logged and skipped.
C11_SecurityErrorsFatal ==
    called = "build" =>
      /\ \A step \in {"generate_posts", "generate_pages", "generate_tag_pages"} :
            DetectedIn(step) => (RaisedIn(step) /\ raised = "ValueError")
      /\ RaisedIn("clean_output_dir") => raised = "ValueError"

----------------------------------------------------------------------------
(* Claims about load_config (checked under SpecConfig) *)

\* the configuration is as the claim requires of one that loads
Acceptable(file) ==
    /\ file.exists /\ ~file.empty
    /\ file.site_name = "str" /\ file.author = "str"
    /\ file.base_url.kind = "str"
    /\ file.base_url.scheme \in {"http", "https"}
    /\ file.base_url.netloc # ""
    /\ \/ file.posts_per_page.kind = "missing"
       \/ (file.posts_per_page.kind = "int" /\ file.posts_per_page.value > 0)
    /\ \/ file.timezone.kind = "missing"
       \/ (file.timezone.kind = "str"
           /\ file.timezone.name \in {"UTC", "Europe/Paris"})

\* C19: load_config succeeds only if the configuration is non-empty,
\* site_name, base_url and author are non-blank strings, posts_per_page
\* (if present) is a positive integer, base_url is an absolute http/https
\* URL with a host and timezone (if present) is a loadable zone; in every
\* other case it raises FileNotFoundError for a missing file and
\* ValueError otherwise, and the generator's config stays unset.
C19_LoadsOnlyValidConfig ==
    ret # <<>> =>
      /\ Head(ret).raised = "None" => (Acceptable(args) /\ config # <<>>)
      /\ ~Acceptable(args) =>
            /\ Head(ret).raised =
                  IF args.exists THEN "ValueError" ELSE "FileNotFoundError"
            /\ config = <<>>

\* the required fields that are missing, null, blank or not a string
Violating(file) ==
    {f \in {"site_name", "base_url", "author"} :
        (CASE f = "site_name" -> file.site_name
           [] f = "base_url"  -> file.base_url.kind
           [] f = "author"    -> file.author) # "str"}

\* C20: the validation failures of the three required fields are
\* reported together: the one error raised lists every field that is
\* missing, null, blank or not a string.
C20_AllViolationsReported ==
    (ret # <<>> /\ args.exists /\ ~args.empty /\ Violating(args) # {}) =>
      /\ Head(ret).raised = "ValueError"
      /\ Head(ret).reported = Violating(args)

----------------------------------------------------------------------------
(* generate_slug called directly *)

\* the characters of a title: an ASCII letter in lower and upper case, a
\* blank, a hyphen, a symbol, an accented Latin letter and a CJK letter
TitleChars == {"a", "B", " ", "-", "!", "e_acute", "cjk"}

Titles == SeqsUpTo(TitleChars, MaxTitleLen)

\* str.strip(): leading and trailing blanks removed
RECURSIVE StripBlanks(_)
StripBlanks(str) ==
    IF str = <<>> THEN <<>>
    ELSE IF Head(str) = " " THEN StripBlanks(Tail(str))
    ELSE IF str[Len(str)] = " "
    THEN StripBlanks(SubSeq(str, 1, Len(str) - 1))
    ELSE str

\* unicodedata.normalize("NFKD", ...).encode("ascii", "ignore"): the accent
\* is split off and dropped, a letter without ASCII equivalent is dropped
RECURSIVE AsciiOf(_)
AsciiOf(str) ==
    IF str = <<>> THEN <<>>
    ELSE (CASE Head(str) = "e_acute" -> <<"e">>
            [] Head(str) = "cjk"     -> <<>>
            [] OTHER                 -> <<Head(str)>>) \o AsciiOf(Tail(str))

\* str.lower()
LowerChars(str) ==
    [i \in 1..Len(str) |-> IF str[i] = "B" THEN "b" ELSE str[i]]

\* re.sub(r"[^\w\s-]", "", ...): letters, blanks and hyphens are kept
KeepWordChars(str) == SelectSeq(str, LAMBDA c : c # "!")

\* re.sub(r"[-\s]+", "-", ...): every run of blanks and hyphens becomes
\* one hyphen
RECURSIVE Hyphenate(_)
Hyphenate(str) ==
    IF str = <<>> THEN <<>>
    ELSE IF Head(str) \in {" ", "-"}
    THEN IF Len(str) > 1 /\ str[2] \in {" ", "-"}
         THEN Hyphenate(Tail(str))
         ELSE <<"-">> \o Hyphenate(Tail(str))
    ELSE <<Head(str)>> \o Hyphenate(Tail(str))

\* str.strip("-")
RECURSIVE StripHyphens(_)
StripHyphens(str) ==
    IF str = <<>> THEN <<>>
    ELSE IF Head(str) = "-" THEN StripHyphens(Tail(str))
    ELSE IF str[Len(str)] = "-"
    THEN StripHyphens(SubSeq(str, 1, Len(str) - 1))
    ELSE str

Kebab(str) == StripHyphens(Hyphenate(KeepWordChars(LowerChars(str))))

\* the title reduces to nothing in both passes, so its hash is taken
NeedsHash(title) ==
    /\ StripBlanks(title) # <<>>
    /\ Len(Kebab(AsciiOf(StripBlanks(title)))) < 3
    /\ Kebab(StripBlanks(title)) = <<>>

HashModulus == 10000

\* values hash(title) can take: str hashes are salted with a key drawn
\* when the interpreter starts, so the value is fixed within a process
\* and differs between processes
HashValues == {7, 4242, 10007}

\* generate_slug(title), where hash = abs(hash(title)) in this process
GenerateSlug(title, hash) ==
    IF title = <<>> \/ StripBlanks(title) = <<>> THEN <<"untitled">>
    ELSE LET stripped     == StripBlanks(title)
             slug         == Kebab(AsciiOf(stripped))
             unicode_slug == Kebab(stripped)
         IN  IF slug # <<>> /\ Len(slug) >= 3 THEN slug
             ELSE IF unicode_slug # <<>> /\ Len(unicode_slug) >= 1
             THEN unicode_slug
             ELSE <<"post-", ToString(hash % HashModulus)>>

\* a process is started for a title; its hash salt is not drawn yet
InitSlug ==
    /\ NewGenerator
    /\ contentFiles = NoContent
    /\ args \in [title : Titles, run : {1}, hash : {<<>>}]
    /\ ret = <<>>

\* generate_slug(title) in the running process; the first hash taken of
\* the title fixes its value for the rest of the process
GenerateSlugCall ==
    /\ Len(ret) < MaxSlugCalls
    /\ \E h \in (IF args.hash = <<>> THEN HashValues ELSE {args.hash[1]}) :
          /\ ret' = Append(ret, [run |-> args.run,
                                 slug |-> GenerateSlug(args.title, h)])
          /\ args' = [args EXCEPT !.hash = IF NeedsHash(args.title)
                                           THEN <<h>> ELSE @]
    /\ UNCHANGED <<config, renderer, pc, called, raised, includeDrafts,
                   contentFiles, processed, posts, pages, site, steps, log,
                   faults>>

\* the program ends and is run again
RunAgain ==
    /\ args.run < MaxRuns
    /\ args' = [args EXCEPT !.run = @ + 1, !.hash = <<>>]
    /\ UNCHANGED <<config, renderer, pc, called, raised, includeDrafts,
                   contentFiles, processed, posts, pages, site, steps, log,
                   faults, ret>>

NextSlug == GenerateSlugCall \/ RunAgain

SpecSlug == InitSlug /\ [][NextSlug]_vars

\* C21: generate_slug is total and deterministic: every call returns a
\* non-empty slug, and two calls with the same title, in the same run or
\* in different runs of the program, return the same slug, the hash-based
\* 'post-...' fallback included.
C21_SlugDeterministic ==
    \A i, j \in 1..Len(ret) :
        /\ ret[i].slug # <<>>
        /\ ret[i].slug = ret[j].slug

\* C21 within one process: the calls of one run agree
C21_SameRunAgrees ==
    \A i, j \in 1..Len(ret) :
        (ret[i].run = ret[j].run) => (ret[i].slug = ret[j].slug)

----------------------------------------------------------------------------
(* parse_date called directly *)

\* a point on the calendar: wall-clock fields and, if aware, a zone
Timestamp(day, hour, tz) == [day |-> day, hour |-> hour, tz |-> tz]

\* the values a front matter can give for 'date': a datetime (naive or
\* carrying a zone), a date, a string in some layout, or another type
DateValue(kind, day, hour, tz, layout, padded) ==
    [kind |-> kind, day |-> day, hour |-> hour, tz |-> tz,
     layout |-> layout, padded |-> padded]

Days == 1..MaxDay
Hours == {0, 12}
ZoneNames == {"UTC", "America/Denver", "Invalid/Timezone"}

\* the layouts of a date string: the three accepted ones and one that
\* is not accepted
Layouts == {"%Y-%m-%d", "%Y-%m-%d %H:%M:%S", "%Y-%m-%d %H:%M", "%d/%m/%Y"}

DateValues ==
    {DateValue("datetime", d, h, tz, "", FALSE) :
        d \in Days, h \in Hours, tz \in {<<>>, <<"Asia/Tokyo">>}}
    \cup {DateValue("date", d, 0, <<>>, "", FALSE) : d \in Days}
    \cup {DateValue("str", d, IF l = "%Y-%m-%d" THEN 0 ELSE 12, <<>>, l, p) :
            d \in Days, l \in Layouts, p \in BOOLEAN}
    \cup {DateValue("int", 1, 0, <<>>, "", FALSE)}

AcceptedFormats == <<"%Y-%m-%d", "%Y-%m-%d %H:%M:%S", "%Y-%m-%d %H:%M">>

\* datetime.strptime(text.strip(), fmt): the fields of the text when it is
\* laid out as fmt, ValueError otherwise
Strptime(text, fmt) ==
    IF text.layout = fmt
    THEN Returned(Timestamp(text.day, text.hour, <<>>))
    ELSE Raised("ValueError")

\* the loop over the formats: the first one that parses the text
RECURSIVE TryFormats(_, _)
TryFormats(text, formats) ==
    IF formats = <<>> THEN Raised("ParseError")
    ELSE IF Strptime(text, Head(formats))[1].raised = "None"
    THEN Strptime(text, Head(formats))
    ELSE TryFormats(text, Tail(formats))

\* parse_date(date_value, filepath)
ParseDate(date_value) ==
    CASE date_value.kind = "datetime" ->
            Returned(Timestamp(date_value.day, date_value.hour,
                               date_value.tz))
      [] date_value.kind = "date" ->
            Returned(Timestamp(date_value.day, 0, <<>>))
      [] date_value.kind = "str" -> TryFormats(date_value, AcceptedFormats)
      [] OTHER -> Raised("ParseError")

\* two dates are parsed for a site whose configured zone is timezone
InitDate ==
    /\ NewGenerator
    /\ contentFiles = NoContent
    /\ args \in [date_values : [1..2 -> DateValues], timezone : ZoneNames]
    /\ ret = <<>>

\* parse_date(front_matter["date"], filepath) for the next value
ParseDateCall ==
    /\ Len(ret) < 2
    /\ ret' = ret \o ParseDate(args.date_values[Len(ret) + 1])
    /\ UNCHANGED <<config, renderer, pc, called, raised, includeDrafts,
                   contentFiles, processed, posts, pages, site, steps, log,
                   faults, args>>

NextDate == ParseDateCall

SpecDate == InitDate /\ [][NextDate]_vars

\* the zone a name resolves to: an unknown name resolves to UTC
ResolvedZone(name) == IF name = "Invalid/Timezone" THEN "UTC" ELSE name

\* datetime comparison: defined between two aware or two naive values
Comparable(a, b) == (a.tz = <<>>) <=> (b.tz = <<>>)

\* the value is a datetime, a date or a string in an accepted layout
AcceptedDate(date_value) ==
    \/ date_value.kind \in {"datetime", "date"}
    \/ date_value.kind = "str" /\ date_value.layout # "%d/%m/%Y"

\* C22: parse_date always yields a timezone-aware timestamp: a value that
\* carries a zone is returned unchanged; a naive datetime, a date (at
\* midnight) or an accepted string gets the requested zone attached to its
\* unchanged wall-clock fields, an unknown zone name resolving to UTC
\* without raising; so any two parsed dates are comparable.
C22_DatesZoneAware ==
    /\ \A i \in 1..Len(ret) :
          LET date_value == args.date_values[i]
          IN  AcceptedDate(date_value) =>
                /\ ret[i].raised = "None"
                /\ ret[i].value.day = date_value.day
                /\ ret[i].value.hour = date_value.hour
                /\ ret[i].value.tz =
                      IF date_value.tz # <<>> THEN date_value.tz
                      ELSE <<ResolvedZone(args.timezone)>>
    /\ \A i, j \in 1..Len(ret) :
          (ret[i].raised = "None" /\ ret[j].raised = "None")
              => Comparable(ret[i].value, ret[j].value)

\* C22, the part the code keeps: the wall-clock fields of an accepted value
\* are returned as given, and a zone the value carries is kept
C22_FieldsKept ==
    \A i \in 1..Len(ret) :
        LET date_value == args.date_values[i]
        IN  AcceptedDate(date_value) =>
              /\ ret[i].raised = "None"
              /\ ret[i].value.day = date_value.day
              /\ ret[i].value.hour = date_value.hour
              /\ date_value.tz # <<>> => ret[i].value.tz = date_value.tz

----------------------------------------------------------------------------
(* extract_front_matter called directly *)

\* the pieces texts are put together from: a delimiter, a hyphen, a
\* blank, a letter, and a bracket that is never closed
TextPieces == {<<"-", "-", "-">>, <<"-">>, <<" ">>, <<"x">>, <<"[">>}

RECURSIVE Flatten(_)
Flatten(pieces) ==
    IF pieces = <<>> THEN <<>> ELSE Head(pieces) \o Flatten(Tail(pieces))

\* the delimiter stands at position i of content
DelimiterAt(content, i) ==
    /\ i + 2 <= Len(content)
    /\ content[i] = "-" /\ content[i + 1] = "-" /\ content[i + 2] = "-"

\* str.split("---") with no limit on the number of splits
RECURSIVE SplitEverywhere(_, _)
SplitEverywhere(content, maxsplit) ==
    IF \E i \in 1..Len(content) : DelimiterAt(content, i)
    THEN LET i == CHOOSE k \in 1..Len(content) :
                     /\ DelimiterAt(content, k)
                     /\ \A l \in 1..(k - 1) : ~DelimiterAt(content, l)
         IN  <<SubSeq(content, 1, i - 1)>>
             \o SplitEverywhere(SubSeq(content, i + 3, Len(content)),
                                maxsplit)
    ELSE <<content>>

\* str.split("---", maxsplit): content is cut at its leftmost delimiters,
\* at most maxsplit of them
RECURSIVE SplitDelimiter(_, _)
SplitDelimiter(content, maxsplit) ==
    IF maxsplit > 0 /\ \E i \in 1..Len(content) : DelimiterAt(content, i)
    THEN LET i == CHOOSE k \in 1..Len(content) :
                     /\ DelimiterAt(content, k)
                     /\ \A l \in 1..(k - 1) : ~DelimiterAt(content, l)
         IN  <<SubSeq(content, 1, i - 1)>>
             \o SplitDelimiter(SubSeq(content, i + 3, Len(content)),
                               maxsplit - 1)
    ELSE <<content>>

\* the block opens a flow sequence: '[' stands where a node starts, that
\* is at the start of the block or after the '- ' of a sequence entry;
\* anywhere else '[' is part of a plain scalar
RECURSIVE OpensFlow(_)
OpensFlow(block) ==
    IF block = <<>> THEN FALSE
    ELSE IF Head(block) = " " THEN OpensFlow(Tail(block))
    ELSE IF Head(block) = "[" THEN TRUE
    ELSE IF Head(block) = "-" /\ Len(block) > 1 /\ block[2] = " "
    THEN OpensFlow(Tail(block))
    ELSE FALSE

\* yaml.safe_load(block): the document of the block, an empty mapping for
\* an empty block, YAMLError for a flow sequence that is never closed
SafeLoad(block) ==
    IF OpensFlow(block) THEN Raised("YAMLError") ELSE Returned(block)

\* extract_front_matter(content, filepath)
ExtractFrontMatter(content) ==
    IF ~DelimiterAt(content, 1) THEN Raised("ParseError")
    ELSE LET parts == SplitDelimiter(content, 2)
         IN  IF Len(parts) < 3 THEN Raised("ParseError")
             ELSE IF SafeLoad(StripBlanks(parts[2]))[1].raised # "None"
             THEN Raised("ParseError")
             ELSE Returned(
                    [front_matter |->
                        SafeLoad(StripBlanks(parts[2]))[1].value,
                     markdown_body |-> StripBlanks(parts[3])])

InitFrontMatter ==
    /\ NewGenerator
    /\ contentFiles = NoContent
    /\ args \in [pieces : SeqsUpTo(TextPieces, MaxTextPieces)]
    /\ ret = <<>>

\* extract_front_matter(content, filepath)
ExtractFrontMatterCall ==
    /\ ret = <<>>
    /\ ret' = ExtractFrontMatter(Flatten(args.pieces))
    /\ UNCHANGED <<config, renderer, pc, called, raised, includeDrafts,
                   contentFiles, processed, posts, pages, site, steps, log,
                   faults, args>>

NextFrontMatter == ExtractFrontMatterCall

SpecFrontMatter == InitFrontMatter /\ [][NextFrontMatter]_vars

\* the positions in content at which a closing delimiter can start: a
\* delimiter that does not overlap the opening one
ClosingAt(content) == {i \in 4..Len(content) : DelimiterAt(content, i)}

\* the position of the first closing delimiter
Closing(content) ==
    CHOOSE i \in ClosingAt(content) : \A k \in ClosingAt(content) : i <= k

\* C23: extract_front_matter splits on the first two delimiters only: for
\* a text that starts with '---', has a closing '---' and a valid block
\* between them, the body returned is everything after the second
\* delimiter, trimmed, whatever delimiters it contains; a text that does
\* not start with the delimiter, has no closing delimiter or has an
\* invalid block raises ParseError.
C23_SplitsOnFirstTwo ==
    ret # <<>> =>
      LET content == Flatten(args.pieces)
          wellFormed ==
            /\ DelimiterAt(content, 1)
            /\ ClosingAt(content) # {}
            /\ ~OpensFlow(SubSeq(content, 4, Closing(content) - 1))
      IN  IF wellFormed
          THEN /\ ret[1].raised = "None"
               /\ ret[1].value.markdown_body =
                     StripBlanks(SubSeq(content, Closing(content) + 3,
                                        Len(content)))
          ELSE ret[1].raised = "ParseError"

\* a body that itself contains the delimiter has been returned
C23_Witness ==
    /\ ret # <<>>
    /\ ret[1].raised = "None"
    /\ \E i \in 1..Len(ret[1].value.markdown_body) :
          DelimiterAt(ret[1].value.markdown_body, i)

----------------------------------------------------------------------------
(* The generate_* and process methods called directly *)

\* a post whose two tags are the same after normalisation
DuplicateTagsPost ==
    ContentFile("none", "D", 1, Slug("d", <<>>), <<"X", " x">>, FALSE,
                "None", "seven")

\* the files the posts handed to the methods are parsed from
DirectPostFiles ==
    {file \in PostFiles : file.defect \in {"none", "missing_title"}}
    \cup {DuplicateTagsPost}

DirectPageFiles == {file \in PageFiles : file.defect = "none"}

InitDirect ==
    /\ NewGenerator
    /\ contentFiles = NoContent
    /\ args \in [posts : SeqsUpTo(DirectPostFiles, DirectMaxPosts),
                 pages : SeqsUpTo(DirectPageFiles, 1)]
    /\ ret = <<>>

\* the ParsedContent lists a caller holds for the files
GivenPosts == ProcessContentFiles(args.posts).results
GivenPages == ProcessContentFiles(args.pages).results

\* generator.load_config(), before the method under test is called
LoadConfigBefore ==
    /\ ret = <<>>
    /\ LoadConfigCall

\* generator.renderer = TemplateRenderer(generator.template_dir)
SetRenderer ==
    /\ ret = <<>>
    /\ renderer = "None"
    /\ renderer' = "Set"
    /\ UNCHANGED <<config, pc, called, raised, includeDrafts, contentFiles,
                   processed, posts, pages, site, steps, log, faults, args,
                   ret>>

\* what a direct call returned or raised
Outcome(method, exc, value) ==
    <<[method |-> method, raised |-> exc, value |-> value]>>

\* a guard that looks at the config only
UninitializedConfigOnly == config = <<>>

\* the guard that opens every generate_* method
Uninitialized == renderer = "None" \/ config = <<>>

\* a generate_* method called directly ends in st, or in RuntimeError
\* before it did anything
DirectCall(method, st) ==
    /\ called' = method
    /\ steps' = Append(steps, method)
    /\ site' = st.site
    /\ log' = st.log
    /\ faults' = faults \cup st.met
    /\ raised' = st.raised
    /\ ret' = Outcome(method, st.raised, <<>>)
    /\ UNCHANGED <<config, renderer, pc, includeDrafts, contentFiles,
                   processed, posts, pages, args>>

NotInitialized(method) ==
    [StartOf(method) EXCEPT !.raised = "RuntimeError"]

\* generator.generate_posts(posts)
GeneratePostsCall ==
    /\ ret = <<>>
    /\ \E f \in FaultChoices("generate_posts", PostKeys(GivenPosts)) :
          DirectCall("generate_posts",
              IF Uninitialized THEN NotInitialized("generate_posts")
              ELSE GenerateItemsFrom(GivenPosts, 1, "generate_posts", f,
                                     StartOf("generate_posts")))

\* generator.generate_index(posts)
GenerateIndexCall ==
    /\ ret = <<>>
    /\ IF Uninitialized
       THEN DirectCall("generate_index", NotInitialized("generate_index"))
       ELSE LET page_infos ==
                    PaginatePosts(SortPostsByDate(ToDicts(GivenPosts)),
                                  Head(config).posts_per_page)
            IN  \E f \in FaultChoices("generate_index",
                                      NumberKeys(page_infos)) :
                   DirectCall("generate_index",
                              GenerateIndexFrom(page_infos, 1, f,
                                                StartOf("generate_index")))

\* generator.generate_tag_pages(posts)
GenerateTagPagesCall ==
    /\ ret = <<>>
    /\ LET posts_by_tag == CollectPostsByTag(ToDicts(GivenPosts))
       IN  \E f \in FaultChoices("generate_tag_pages",
                                 TagKeys(posts_by_tag)) :
              DirectCall("generate_tag_pages",
                  IF Uninitialized THEN NotInitialized("generate_tag_pages")
                  ELSE GenerateTagPagesFrom(posts_by_tag, 1, f,
                                            StartOf("generate_tag_pages")))

\* generator.generate_tag_index(posts)
GenerateTagIndexCall ==
    /\ ret = <<>>
    /\ LET posts_by_tag == CollectPostsByTag(ToDicts(GivenPosts))
       IN  \E f \in FaultChoices("generate_tag_index", {Key(0, "")}) :
              DirectCall("generate_tag_index",
                  IF Uninitialized THEN NotInitialized("generate_tag_index")
                  ELSE GenerateOne("generate_tag_index", TagIndexPath,
                                   Content("new", <<>>, <<>>,
                                           TagsWithCounts(posts_by_tag)),
                                   f, StartOf("generate_tag_index")))

\* generator.generate_feed(posts)
GenerateFeedCall ==
    /\ ret = <<>>
    /\ \E f \in FaultChoices("generate_feed", {Key(0, "")}) :
          DirectCall("generate_feed",
              IF Uninitialized THEN NotInitialized("generate_feed")
              ELSE GenerateOne("generate_feed", FeedPath,
                               Content("new",
                                       Ids(SortPostsByDate(
                                               ToDicts(GivenPosts))),
                                       <<>>, <<>>),
                               f, StartOf("generate_feed")))

\* generator.generate_sitemap(posts, pages)
GenerateSitemapCall ==
    /\ ret = <<>>
    /\ LET posts_dict == SortPostsByDate(ToDicts(GivenPosts))
           pages_dict == ToDicts(GivenPages)
           all_tags == TagNames(CollectPostsByTag(posts_dict))
       IN  \E f \in FaultChoices("generate_sitemap", {Key(0, "")}) :
              DirectCall("generate_sitemap",
                  IF Uninitialized THEN NotInitialized("generate_sitemap")
                  ELSE GenerateOne("generate_sitemap", SitemapPath,
                                   Content("new", Ids(posts_dict),
                                           Ids(pages_dict), all_tags),
                                   f, StartOf("generate_sitemap")))

\* generator.generate_pages(pages)
GeneratePagesCall ==
    /\ ret = <<>>
    /\ \E f \in FaultChoices("generate_pages", PostKeys(GivenPages)) :
          DirectCall("generate_pages",
              IF Uninitialized THEN NotInitialized("generate_pages")
              ELSE GenerateItemsFrom(GivenPages, 1, "generate_pages", f,
                                     StartOf("generate_pages")))

\* generator._process_content_files(files, "post")
ProcessContentFilesCall ==
    /\ ret = <<>>
    /\ called' = "_process_content_files"
    /\ steps' = Append(steps, "_process_content_files")
    /\ IF config = <<>>
       THEN /\ raised' = "RuntimeError"
            /\ ret' = Outcome("_process_content_files", "RuntimeError", <<>>)
            /\ log' = <<>>
       ELSE LET r == ProcessContentFiles(args.posts)
            IN  /\ raised' = r.raised
                /\ ret' = Outcome("_process_content_files", r.raised,
                                  r.results)
                /\ log' = ParseErrorsLogged([posts |-> r.errors,
                                             pages |-> <<>>])
    /\ UNCHANGED <<config, renderer, pc, includeDrafts, contentFiles,
                   processed, posts, pages, site, faults, args>>

\* generator.process_content({"posts": ..., "pages": ...})
ProcessContentOfCall ==
    /\ ret = <<>>
    /\ called' = "process_content"
    /\ steps' = Append(steps, "process_content")
    /\ IF config = <<>>
       THEN /\ raised' = "RuntimeError"
            /\ ret' = Outcome("process_content", "RuntimeError", <<>>)
            /\ log' = <<>>
       ELSE LET r == ProcessContent(args)
            IN  /\ raised' = r.raised
                /\ ret' = Outcome("process_content", r.raised,
                                  r.result.posts \o r.result.pages)
                /\ log' = ParseErrorsLogged(r.errors)
    /\ UNCHANGED <<config, renderer, pc, includeDrafts, contentFiles,
                   processed, posts, pages, site, faults, args>>

NextDirect ==
    \/ LoadConfigBefore
    \/ SetRenderer
    \/ GeneratePostsCall
    \/ GenerateIndexCall
    \/ GenerateTagPagesCall
    \/ GenerateTagIndexCall
    \/ GenerateFeedCall
    \/ GenerateSitemapCall
    \/ GeneratePagesCall
    \/ ProcessContentFilesCall
    \/ ProcessContentOfCall

SpecDirect == InitDirect /\ [][NextDirect]_vars

----------------------------------------------------------------------------
(* Claims about the generate_* methods (checked under SpecDirect) *)

\* the method was called directly and returned
Returns(method) ==
    /\ ret # <<>>
    /\ ret[1].method = method
    /\ ret[1].raised = "None"

\* the files among those given that parse
ParsedFiles == SelectSeq(args.posts, LAMBDA file : file.defect = "none")

\* the tags a file carries, lowercased and trimmed, blank ones dropped
NormalTags(file) ==
    {Strip(Lower(file.tags[k])) : k \in 1..Len(file.tags)} \ {""}

\* the files that carry tag
FilesCarrying(tag) ==
    {k \in 1..Len(ParsedFiles) : tag \in NormalTags(ParsedFiles[k])}

\* some post names one tag twice, in spellings that normalise alike
RepeatsTag ==
    \E k \in 1..Len(GivenPosts) :
        \E i, j \in 1..Len(GivenPosts[k].metadata.tags) :
            i # j /\ GivenPosts[k].metadata.tags[i]
                        = GivenPosts[k].metadata.tags[j]

\* C24: the tag index lists exactly the distinct tags of the posts it is
\* given, and the count of each tag is the number of posts that carry
\* it, a post counting once per tag after lowercase/trim normalisation.
C24_TagIndexCounts ==
    (Returns("generate_tag_index") /\ TagIndexPath \in DOMAIN site
     /\ site[TagIndexPath].build = "new") =>
        /\ {t.tag : t \in TagsShown(TagIndexPath)} =
              UNION {NormalTags(ParsedFiles[k]) : k \in 1..Len(ParsedFiles)}
        /\ \A t \in TagsShown(TagIndexPath) :
              t.count = Cardinality(FilesCarrying(t.tag))
        /\ \A i, j \in 1..Len(site[TagIndexPath].tags) :
              (site[TagIndexPath].tags[i].tag = site[TagIndexPath].tags[j].tag)
                  => i = j

\* C24 for posts none of which repeats a tag
C24_CountsWithoutRepeats ==
    (Returns("generate_tag_index") /\ TagIndexPath \in DOMAIN site
     /\ site[TagIndexPath].build = "new" /\ ~RepeatsTag) =>
        /\ {t.tag : t \in TagsShown(TagIndexPath)} =
              UNION {NormalTags(ParsedFiles[k]) : k \in 1..Len(ParsedFiles)}
        /\ \A t \in TagsShown(TagIndexPath) :
              t.count = Cardinality(FilesCarrying(t.tag))

\* the date of the given post that ended up with slug
DateOf(slug) ==
    (CHOOSE post \in {GivenPosts[k] : k \in 1..Len(GivenPosts)} :
        post.metadata.slug = slug).metadata.date

\* the posts a file lists are in non-increasing date order
NewestFirst(listed) ==
    \A a, b \in 1..Len(listed) :
        a < b => DateOf(listed[a]) >= DateOf(listed[b])

\* the files written by the call
NewFiles(kind) ==
    {path \in DOMAIN site : path.kind = kind /\ site[path].build = "new"}

\* C25: posts are listed newest first whatever order their files were
\* discovered in: the index pages taken in page order, the feed and every
\* tag page list their posts in non-increasing date order.
C25_NewestFirst ==
    /\ \A p, q \in NewFiles("index") :
          /\ NewestFirst(site[p].posts)
          /\ p.n < q.n =>
                \A a \in 1..Len(site[p].posts), b \in 1..Len(site[q].posts) :
                    DateOf(site[p].posts[a]) >= DateOf(site[q].posts[b])
    /\ \A p \in NewFiles("feed") \cup NewFiles("tag") :
          NewestFirst(site[p].posts)

\* the files were discovered oldest first, and the index, the feed or a
\* tag page lists both posts
C25_Witness ==
    /\ Len(GivenPosts) >= 2
    /\ GivenPosts[1].metadata.date < GivenPosts[2].metadata.date
    /\ \/ /\ Returns("generate_index")
          /\ \E p, q \in NewFiles("index") :
                /\ p.n < q.n
                /\ site[p].posts # <<>> /\ site[q].posts # <<>>
       \/ /\ Returns("generate_feed")
          /\ \E p \in NewFiles("feed") : Len(site[p].posts) >= 2
       \/ /\ Returns("generate_tag_pages")
          /\ \E p \in NewFiles("tag") : Len(site[p].posts) >= 2

GenerateMethods ==
    {"generate_posts", "generate_index", "generate_tag_pages",
     "generate_tag_index", "generate_feed", "generate_sitemap",
     "generate_pages"}

ProcessMethods == {"_process_content_files", "process_content"}

\* C27: a generate_* method called while the renderer or the config is
\* unset raises RuntimeError and writes no file, whatever list it is
\* given; process_content and _process_content_files called before
\* load_config raise RuntimeError and parse no file.
C27_GuardsRaise ==
    ret # <<>> =>
      /\ (ret[1].method \in GenerateMethods
          /\ (renderer = "None" \/ config = <<>>)) =>
            /\ ret[1].raised = "RuntimeError"
            /\ site = OldSite
            /\ log = <<>>
      /\ (ret[1].method \in ProcessMethods /\ config = <<>>) =>
            /\ ret[1].raised = "RuntimeError"
            /\ ret[1].value = <<>>
            /\ log = <<>>

\* generate_tag_pages was called with posts after load_config, the
\* renderer being unset
C27_Witness ==
    /\ ret # <<>>
    /\ ret[1].method = "generate_tag_pages"
    /\ ret[1].raised = "RuntimeError"
    /\ config # <<>>
    /\ renderer = "None"
    /\ CollectPostsByTag(ToDicts(GivenPosts)) # <<>>

----------------------------------------------------------------------------
(* Termination of build() *)

\* the steps of build() that parse the content and generate from it
ContentSteps ==
    {"process_content", "generate_posts", "generate_index",
     "generate_tag_pages", "generate_tag_index", "generate_feed",
     "generate_pages", "generate_sitemap"}

\* build() runs one of those steps
ContentStep == pc \in ContentSteps /\ Next

\* build() is sequential code run by one thread: once called it runs each
\* statement as soon as the one before it has returned, so a step that is
\* enabled is eventually taken: weak fairness of every action. For the
\* content steps WF_vars(ContentStep) is written out by its definition,
\* []<>~ENABLED <<ContentStep>>_vars \/ []<><<ContentStep>>_vars, where
\* ENABLED <<ContentStep>>_vars is pc \in ContentSteps: each of those
\* actions has its pc as only guard and appends to steps.
SpecLive ==
    /\ InitBuild
    /\ [][Next]_vars
    /\ WF_vars(BuildCall)
    /\ WF_vars(LoadConfig)
    /\ WF_vars(InitRenderer)
    /\ WF_vars(CleanOutputDir)
    /\ WF_vars(DiscoverContent)
    /\ WF_vars(CopyAssets)
    /\ ([]<>(pc \notin ContentSteps) \/ []<><<ContentStep>>_vars)

\* the suffix the probe ended on is at most the number of slugs in use
\* plus one: the post at position k met k - 1 used slugs
ProbeBounded ==
    \A k \in 1..Len(AllPosts) :
        LET assigned == AllPosts[k].metadata.slug
            natural == contentFiles.posts[AllPosts[k].filepath].slug
        IN  assigned # natural =>
              /\ assigned = WithSuffix(natural, assigned.sfx[Len(assigned.sfx)])
              /\ assigned.sfx[Len(assigned.sfx)]
                    <= Cardinality({AllPosts[j].metadata.slug : j \in 1..(k - 1)}) + 1

----------------------------------------------------------------------------
(* Drafts and empty sites in build() (checked under Spec and SpecLive) *)

\* the slug the file of a processed post asked for
AskedSlug(post) == contentFiles.posts[post.filepath].slug

\* no failure was met at the post while the posts were generated
PostUnfailed(post) ==
    ~\E f \in faults : f.step = "generate_posts" /\ f.n = post.filepath

\* C29: slugs are resolved over all parsed posts before the drafts are
\* filtered out, so a draft reserves its slug in a build that excludes
\* drafts: a published post listed after a draft that holds the slug it
\* asked for is renamed (to slug-2 when the draft is the only post before
\* it) and written under the new slug, and nothing is written at the
\* path of the slug the draft holds.
C29_DraftReservesSlug ==
    (called = "build" /\ ~includeDrafts /\ Completed("process_content")) =>
        \A j, k \in 1..Len(AllPosts) :
            (/\ j < k
             /\ AllPosts[j].metadata.draft
             /\ ~AllPosts[k].metadata.draft
             /\ AllPosts[j].metadata.slug = AskedSlug(AllPosts[k])) =>
                /\ AllPosts[k].metadata.slug # AskedSlug(AllPosts[k])
                /\ k = 2 => AllPosts[k].metadata.slug
                               = WithSuffix(AskedSlug(AllPosts[k]), 2)
                /\ PostPath(AskedSlug(AllPosts[k])) \notin DOMAIN site
                /\ (Completed("generate_posts") /\ PostUnfailed(AllPosts[k]))
                      => /\ PostPath(AllPosts[k].metadata.slug) \in DOMAIN site
                         /\ Shown(PostPath(AllPosts[k].metadata.slug))
                               = {AllPosts[k].metadata.slug}

\* the published post listed after the draft of its slug was written at
\* posts/a-2/
C29_Witness ==
    /\ called = "build"
    /\ ~includeDrafts
    /\ Completed("generate_posts")
    /\ Len(AllPosts) = 2
    /\ AllPosts[1].metadata.draft
    /\ AllPosts[1].metadata.slug = Slug("a", <<>>)
    /\ ~AllPosts[2].metadata.draft
    /\ AskedSlug(AllPosts[2]) = Slug("a", <<>>)
    /\ PostPath(Slug("a", <<2>>)) \in DOMAIN site
    /\ PostPath(Slug("a", <<>>)) \notin DOMAIN site

\* process_content has returned and no post is left to publish
NoPublishedPosts ==
    /\ called = "build"
    /\ Completed("process_content")
    /\ posts = <<>>

PostSteps ==
    {"generate_posts", "generate_index", "generate_tag_pages",
     "generate_tag_index", "generate_feed"}

\* in a build without published posts the post steps are not run and no
\* post page, index page, tag page, tag index or feed is written; when
\* the build is done the pages step (if there are pages), the sitemap
\* step and the copy of the assets have run
SkipsPostSteps ==
    NoPublishedPosts =>
        /\ StepsRun \cap PostSteps = {}
        /\ \A path \in DOMAIN site :
              path.kind \notin {"post", "index", "tag", "tag_index", "feed"}
        /\ pc = "Done" =>
              /\ raised = "None"
              /\ "generate_sitemap" \in StepsRun
              /\ "copy_assets" \in StepsRun
              /\ pages # <<>> => "generate_pages" \in StepsRun

\* C30: a build that has no published posts skips the post, index,
\* tag-page, tag-index and feed steps, so no index.html, tag/index.html
\* or feed.xml is written, while the pages are generated when present,
\* the sitemap is generated, the assets are copied and the build
\* reaches Done without error.
C30_EmptySiteBuilds ==
    /\ []SkipsPostSteps
    /\ NoPublishedPosts ~> (pc = "Done" /\ raised = "None")

\* C30 but for the failures the generate_* methods let through: such a
\* build reaches Done, or raises an error of rendering that is neither
\* OSError nor ValueError
C30_DoneUnlessUncaught ==
    /\ []SkipsPostSteps
    /\ NoPublishedPosts ~>
          \/ pc = "Done" /\ raised = "None"
          \/ pc = "Raised"
             /\ raised \in RenderWriteExceptions \ CaughtWhileGenerating

====
